---------------------------- MODULE Spec2Model ----------------------------
(***************************************************************************)
(* Model of the vectorized executor core of contrib/vectorize_engine:      *)
(* the aggregation driver (nodeAgg.c), the per-group transition-state      *)
(* manager, the sort-based DISTINCT processor and the vector tuple slot.   *)
(*                                                                         *)
(* Two state machines share this module:                                   *)
(*   SpecTrans  one (aggregate, group) pair: initialize / advance /        *)
(*              ordered-input sort / finalize.                             *)
(*   Spec       the driver VExecAgg over batches delivered by the child.   *)
(***************************************************************************)
EXTENDS Integers, Sequences, FiniteSets, TLC

(***************************************************************************)
(* Bounds of the model.                                                    *)
(***************************************************************************)
\* largest non-null input value of an aggregate argument
MaxVal == 5
\* number of advance calls on one group in SpecTrans
MaxOps == 4
\* number of datums put into one aggregate's sort in SpecTrans
MaxSortLen == 6
\* input rows advanced after an initialization
MaxInitRows == 1

\* a Datum together with its null flag (fcinfo->args[i].value / .isnull)
Datum(v) == [value |-> v, isnull |-> FALSE]
NullDatum == [value |-> 0, isnull |-> TRUE]
Vals == 1..MaxVal
Datums == {Datum(v) : v \in Vals} \cup {NullDatum}

(***************************************************************************)
(* Per-trans descriptors (AggStatePerTransData): the aggregates the model  *)
(* runs.  transfn names the transition function, the other fields are the  *)
(* ones the code reads.                                                    *)
(***************************************************************************)
InvalidOid == "InvalidOid"
PerTrans(fn, strict, nin, iv, ivnull, nsort, ndistinct) ==
    [transfn |-> fn, fn_strict |-> strict, numTransInputs |-> nin,
     initValue |-> iv, initValueIsNull |-> ivnull,
     numSortCols |-> nsort, numDistinctCols |-> ndistinct,
     serialfn_oid |-> InvalidOid, serialfn_strict |-> FALSE]

\* COUNT(*): strict, no input, initial value 0
CountStar == PerTrans("int8inc", TRUE, 0, 0, FALSE, 0, 0)
\* strict, no initial value: the first non-null input is adopted
SumAdopt == PerTrans("int4pl", TRUE, 1, 0, TRUE, 0, 0)
\* strict with initial value 0
SumInit == PerTrans("int4pl", TRUE, 1, 0, FALSE, 0, 0)
\* not strict, no initial value: the function handles nulls itself
SumNonStrict == PerTrans("int4_sum", FALSE, 1, 0, TRUE, 0, 0)
\* strict, no initial value, and the function may return NULL
NullOnTie == PerTrans("larger_or_null", TRUE, 1, 0, TRUE, 0, 0)
\* strict, two inputs, initial value 0
SumTwo == PerTrans("int4pl2", TRUE, 2, 0, FALSE, 0, 0)
\* COUNT(DISTINCT x), SUM(DISTINCT x), SUM(x ORDER BY x)
CountDistinct == PerTrans("int8inc_any", TRUE, 1, 0, FALSE, 1, 1)
SumDistinct == PerTrans("int4pl", TRUE, 1, 0, TRUE, 1, 1)
SumOrdered == PerTrans("int4pl", TRUE, 1, 0, TRUE, 1, 0)
\* COUNT(DISTINCT x) with a non-strict transition function: nulls reach the sort
CountDistinctNonStrict == PerTrans("int8inc_any", FALSE, 1, 0, FALSE, 1, 1)

\* transition states that a partial aggregate serializes before output
SerialStrict ==
    [SumAdopt EXCEPT !.serialfn_oid = "send", !.serialfn_strict = TRUE]
SerialNonStrict ==
    [SumAdopt EXCEPT !.serialfn_oid = "send", !.serialfn_strict = FALSE]
PartialTransConfigs == {SumAdopt, SumInit, SerialStrict, SerialNonStrict}

\* the split modes (AggSplit): the options a mode switches on
AggSplit(combine, skipfinal, serialize, deserialize) ==
    [combine |-> combine, skipfinal |-> skipfinal, serialize |-> serialize,
     deserialize |-> deserialize]
AGGSPLIT_SIMPLE == AggSplit(FALSE, FALSE, FALSE, FALSE)
AGGSPLIT_INITIAL_SERIAL == AggSplit(FALSE, TRUE, TRUE, FALSE)
AGGSPLIT_FINAL_DESERIAL == AggSplit(TRUE, FALSE, FALSE, TRUE)
DO_AGGSPLIT_COMBINE(as) == as.combine
DO_AGGSPLIT_SKIPFINAL(as) == as.skipfinal
DO_AGGSPLIT_SERIALIZE(as) == as.serialize
DO_AGGSPLIT_DESERIALIZE(as) == as.deserialize

PerTransConfigs ==
    {CountStar, SumAdopt, SumInit, SumNonStrict, NullOnTie, SumTwo,
     CountDistinct, SumDistinct, SumOrdered, CountDistinctNonStrict}

(***************************************************************************)
(* The transition functions themselves (FunctionCallInvoke(fcinfo)).       *)
(* st is args[0], args the sequence args[1..numTransInputs].               *)
(***************************************************************************)
TransFn(fn, st, args) ==
    CASE fn = "int8inc" -> Datum(st.value + 1)
      [] fn = "int8inc_any" -> Datum(st.value + 1)
      [] fn = "int4pl" -> Datum(st.value + args[1].value)
      [] fn = "int4pl2" -> Datum(st.value + args[1].value + args[2].value)
      [] fn = "int4_sum" ->
            IF args[1].isnull THEN st
            ELSE IF st.isnull THEN Datum(args[1].value)
            ELSE Datum(st.value + args[1].value)
      [] fn = "larger_or_null" ->
            IF args[1].value = st.value THEN NullDatum
            ELSE IF args[1].value > st.value THEN Datum(args[1].value)
            ELSE st
      [] OTHER -> st

(***************************************************************************)
(* Per-group working state (AggStatePerGroupData).                         *)
(***************************************************************************)
PerGroup(v, isnull, notrans) ==
    [transValue |-> v, transValueIsNull |-> isnull, noTransValue |-> notrans]

\* palloc0'ed per-group storage before the first initialize_aggregate
ZeroPerGroup == PerGroup(0, FALSE, FALSE)

\* a mutant: every fresh group waits for its first input
initialize_aggregate_unset(pertrans) ==
    PerGroup(pertrans.initValue, pertrans.initValueIsNull, TRUE)

\* initialize_aggregate, the transition-value part
initialize_aggregate(pertrans) ==
    PerGroup(pertrans.initValue, pertrans.initValueIsNull, pertrans.initValueIsNull)

\* the strict transfn's early return on a null input
AnyNullInput(pertrans, args) ==
    \E i \in 1..pertrans.numTransInputs : args[i].isnull

\* a mutant: the null test looks at the first input only
StrictSkipsFirstOnly(pertrans, args) ==
    pertrans.fn_strict /\ pertrans.numTransInputs >= 1 /\ args[1].isnull

StrictSkips(pertrans, args) ==
    pertrans.fn_strict /\ AnyNullInput(pertrans, args)

\* a mutant: adoption does not clear noTransValue
AdoptKeepsFlag(args) == PerGroup(args[1].value, FALSE, TRUE)

\* first non-null input of a strict aggregate without initial value
Adopt(args) == PerGroup(args[1].value, FALSE, FALSE)

\* a mutant: a null left by the transition function is passed to it again
advance_transition_function_recalls(pertrans, pg, args) ==
    IF StrictSkips(pertrans, args)
      THEN [pergroup |-> pg, called |-> FALSE]
    ELSE IF pertrans.fn_strict /\ pg.noTransValue
      THEN [pergroup |-> Adopt(args), called |-> FALSE]
    ELSE LET newVal == TransFn(pertrans.transfn,
                               [value |-> pg.transValue,
                                isnull |-> pg.transValueIsNull], args)
         IN  [pergroup |-> PerGroup(newVal.value, newVal.isnull, pg.noTransValue),
              called |-> TRUE]

\* advance_transition_function: the new per-group state and whether the
\* transition function was invoked
advance_transition_function(pertrans, pg, args) ==
    IF StrictSkips(pertrans, args)
      THEN [pergroup |-> pg, called |-> FALSE]
    ELSE IF pertrans.fn_strict /\ pg.noTransValue
      THEN [pergroup |-> Adopt(args), called |-> FALSE]
    ELSE IF pertrans.fn_strict /\ pg.transValueIsNull
      THEN [pergroup |-> pg, called |-> FALSE]
    ELSE LET newVal == TransFn(pertrans.transfn,
                               [value |-> pg.transValue,
                                isnull |-> pg.transValueIsNull], args)
         IN  [pergroup |-> PerGroup(newVal.value, newVal.isnull, pg.noTransValue),
              called |-> TRUE]


(***************************************************************************)
(* Sort-based DISTINCT / ORDER BY processing of a single-input aggregate.  *)
(* The tuplesort is a service outside this repository: a sort handle holds *)
(* a multiset of datums (count per value, index 0 counting the nulls) and  *)
(* hands them back in ascending order, nulls last.                         *)
(***************************************************************************)
EmptySort == [v \in 0..MaxVal |-> 0]
\* a closed handle (pertrans->sortstates[setno] == NULL)
NoSort == [open |-> FALSE, items |-> EmptySort]
\* tuplesort_begin_datum
BeginSort == [open |-> TRUE, items |-> EmptySort]
\* tuplesort_putdatum
PutDatum(ss, d) ==
    LET k == IF d.isnull THEN 0 ELSE d.value
    IN  [ss EXCEPT !.items[k] = @ + 1]
SortSize(ss) == LET RECURSIVE Sum(_)
                    Sum(k) == IF k > MaxVal THEN 0 ELSE ss.items[k] + Sum(k + 1)
                IN  Sum(0)
Repeat(d, n) == [i \in 1..n |-> d]
\* tuplesort_performsort followed by tuplesort_getdatum until exhausted
RECURSIVE SortedFrom(_, _)
SortedFrom(items, k) ==
    IF k > MaxVal THEN Repeat(NullDatum, items[0])
    ELSE Repeat(Datum(k), items[k]) \o SortedFrom(items, k + 1)
SortedDatums(ss) == SortedFrom(ss.items, 1)

\* the abbreviated key tuplesort_getdatum hands out with each datum: equal
\* datums have equal abbreviations, unequal ones may collide
Abbrev(d) == IF d.isnull THEN 0 ELSE d.value \div 2
\* pertrans->equalfnOne
equalfnOne(a, b) == a.value = b.value

\* a mutant: two nulls are not treated as equal
NotDistinctFromPriorNullsDiffer(isDistinct, haveOldVal, old, new) ==
    /\ isDistinct
    /\ haveOldVal
    /\ ~old.isnull /\ ~new.isnull
    /\ Abbrev(old) = Abbrev(new)
    /\ equalfnOne(old, new)

\* the DISTINCT test of process_ordered_aggregate_single
NotDistinctFromPrior(isDistinct, haveOldVal, old, new) ==
    /\ isDistinct
    /\ haveOldVal
    /\ \/ old.isnull /\ new.isnull
       \/ /\ ~old.isnull /\ ~new.isnull
          /\ Abbrev(old) = Abbrev(new)
          /\ equalfnOne(old, new)

\* the loop of process_ordered_aggregate_single over the sorted datums:
\* acc = [pergroup, old, haveOldVal, steps, calls]; steps are the datums
\* advance_transition_function was run for, calls the transfn invocations
RECURSIVE OrderedLoop(_, _, _, _)
OrderedLoop(pertrans, sorted, i, acc) ==
    IF i > Len(sorted) THEN acc
    ELSE LET new == sorted[i]
         IN  IF NotDistinctFromPrior(pertrans.numDistinctCols > 0,
                                     acc.haveOldVal, acc.old, new)
               THEN OrderedLoop(pertrans, sorted, i + 1, acc)
               ELSE LET r == advance_transition_function(pertrans, acc.pergroup, <<new>>)
                    IN  OrderedLoop(pertrans, sorted, i + 1,
                          [pergroup |-> r.pergroup, old |-> new, haveOldVal |-> TRUE,
                           steps |-> Append(acc.steps, new),
                           calls |-> acc.calls + (IF r.called THEN 1 ELSE 0)])

process_ordered_aggregate_single(pertrans, pg, ss) ==
    OrderedLoop(pertrans, SortedDatums(ss), 1,
                [pergroup |-> pg, old |-> NullDatum, haveOldVal |-> FALSE,
                 steps |-> <<>>, calls |-> 0])

(***************************************************************************)
(* Per-agg descriptors (AggStatePerAggData) and finalization.              *)
(***************************************************************************)
PerAgg(fn, strict, nargs, direct) ==
    [finalfn_oid |-> fn, fn_strict |-> strict, numFinalArgs |-> nargs,
     aggdirectargs |-> direct]
\* no final function: the result is the transition value
NoFinal == PerAgg(InvalidOid, FALSE, 1, <<>>)
\* strict final function of the state alone
StrictFinal == PerAgg("negate", TRUE, 1, <<>>)
\* non-strict final function: sees a null state
NonStrictFinal == PerAgg("coalesce", FALSE, 1, <<>>)
\* final function declared with one extra (always null) argument
ExtraArgFinal == PerAgg("coalesce", FALSE, 2, <<>>)
\* strict final function with one non-null direct argument
StrictDirect == PerAgg("minus", TRUE, 2, <<Datum(3)>>)
\* strict final function whose direct argument evaluates to NULL
StrictNullDirect == PerAgg("minus", TRUE, 2, <<NullDatum>>)
\* non-strict final function, one direct argument and one extra position
DirectArgFinal == PerAgg("coalesce", FALSE, 3, <<Datum(3)>>)
\* strict final function declared with an extra position
StrictPadded == PerAgg("negate", TRUE, 2, <<>>)
PerAggConfigs ==
    {NoFinal, StrictFinal, NonStrictFinal, ExtraArgFinal, StrictDirect,
     StrictNullDirect, DirectArgFinal, StrictPadded}

\* the final functions (FunctionCallInvoke of peragg->finalfn); fc is the
\* argument list, fc[1] the transition state
FinalFn(fn, fc) ==
    CASE fn = "negate" -> Datum(0 - fc[1].value)
      [] fn = "minus" -> Datum(fc[1].value - fc[2].value)
      [] fn = "coalesce" ->
            IF fc[1].isnull THEN Datum(0 - Len(fc)) ELSE Datum(fc[1].value + Len(fc))
      [] OTHER -> NullDatum

\* a mutant: finalization consumes the transition value
finalize_aggregate_consuming(peragg, pg) ==
    [result |-> [value |-> pg.transValue, isnull |-> pg.transValueIsNull],
     pergroup |-> PerGroup(0, TRUE, TRUE), fn |-> InvalidOid, fcargs |-> <<>>]

\* a mutant: the declared positions after the direct arguments are dropped
FinalArgsUnpadded(peragg, st) == <<st>> \o peragg.aggdirectargs

\* fcinfo->args of the final function: the transition value in position 0,
\* the direct arguments from position 1, nulls up to numFinalArgs
FinalArgs(peragg, st) ==
    <<st>> \o peragg.aggdirectargs
        \o Repeat(NullDatum, peragg.numFinalArgs - 1 - Len(peragg.aggdirectargs))

\* the outcome of one finalization: the result, the per-group state left,
\* and the function invoked with its arguments, if any
Finalized(result, pg, fn, fc) ==
    [result |-> result, pergroup |-> pg, fn |-> fn, fcargs |-> fc]

\* finalize_aggregate: the result and the per-group state it leaves
finalize_aggregate(peragg, pg) ==
    LET st == [value |-> pg.transValue, isnull |-> pg.transValueIsNull]
        fc == FinalArgs(peragg, st)
        anynull == \E i \in 1..Len(fc) : fc[i].isnull
    IN  IF peragg.finalfn_oid # InvalidOid
          THEN IF peragg.fn_strict /\ anynull
                 THEN Finalized(NullDatum, pg, InvalidOid, <<>>)
                 ELSE Finalized(FinalFn(peragg.finalfn_oid, fc), pg,
                                peragg.finalfn_oid, fc)
          ELSE Finalized(st, pg, InvalidOid, <<>>)

\* the serialization functions (FunctionCallInvoke of pertrans->serialfn):
\* the bytes of the state, which are not the state
SerialFn(fn, st) ==
    IF st.isnull THEN Datum(0 - 100) ELSE Datum(st.value + 100)

\* finalize_partialaggregate: the serialized transition value, or the
\* transition value itself when there is nothing to serialize
finalize_partialaggregate(pt, peragg, pg) ==
    LET st == [value |-> pg.transValue, isnull |-> pg.transValueIsNull]
    IN  IF pt.serialfn_oid # InvalidOid
          THEN IF pt.serialfn_strict /\ pg.transValueIsNull
                 THEN Finalized(NullDatum, pg, InvalidOid, <<>>)
                 ELSE Finalized(SerialFn(pt.serialfn_oid, st), pg,
                                pt.serialfn_oid, <<st>>)
          ELSE Finalized(st, pg, InvalidOid, <<>>)

\* a mutant: the output of a group is always the final function's
FinalizeAlways(as, pt, peragg, pg) == finalize_aggregate(peragg, pg)

\* the body of the final-function loop of finalize_aggregates
FinalizeOne(as, pt, peragg, pg) ==
    IF DO_AGGSPLIT_SKIPFINAL(as)
      THEN finalize_partialaggregate(pt, peragg, pg)
      ELSE finalize_aggregate(peragg, pg)

(***************************************************************************)
(* The aggregates of a node as VExecInitAgg finds them: each Aggref of the *)
(* plan with its pg_aggregate row.  input is the aggregated argument: none,*)
(* binary coercible to the transition type, or incompatible with it;       *)
(* nested tells where the aggregate contains another aggregate call.       *)
(***************************************************************************)
INTERNALOID == "internal"
AGGMODIFY_READ_ONLY == "r"
AGGMODIFY_READ_WRITE == "w"
INT4OID == "int4"
AggDef(fnoid, transtype, combinefn, combstrict, serialfn, deserialfn, strict, ivnull, input, nested) ==
    [aggfnoid |-> fnoid, aggtranstype |-> transtype,
     aggcombinefn |-> combinefn, combinefn_strict |-> combstrict,
     aggserialfn |-> serialfn, aggdeserialfn |-> deserialfn,
     transfn_strict |-> strict, initValueIsNull |-> ivnull,
     input |-> input, nested |-> nested, aggfinalfn |-> "negate",
     aggtransfn |-> IF input = "none" THEN "int8inc" ELSE "int4pl",
     agginitval |-> 0, aggfinalmodify |-> AGGMODIFY_READ_ONLY,
     args |-> "x", aggdirectargs |-> "none"]
AggDefs ==
    {d \in {AggDef("agg", t, c, cs, sf, df, st, ivn, inp, n) :
               t \in {INTERNALOID, INT4OID}, c \in {InvalidOid, "int4pl"},
               cs \in BOOLEAN, sf \in {InvalidOid, "send"},
               df \in {InvalidOid, "recv"}, st \in BOOLEAN, ivn \in BOOLEAN,
               inp \in {"none", "coercible", "incompatible"},
               n \in {"none", "direct", "args"}} :
        d.nested = "args" => d.input # "none"}
\* COUNT(*), a well-formed aggregate
CountDef ==
    AggDef("count", INT4OID, "int4pl", TRUE, InvalidOid, InvalidOid, TRUE, FALSE,
           "none", "none")
\* the aggregate lists of a node: one aggregate, a second one after a
\* well-formed one, the same Aggref twice, and two aggregates over the same
\* input and transition function
NodeAggs ==
    {<<d>> : d \in AggDefs} \cup {<<CountDef, d>> : d \in AggDefs}
    \cup {<<d, d>> : d \in AggDefs}
    \cup {<<d, [d EXCEPT !.aggfnoid = "agg2"]>> : d \in AggDefs}
\* aggregates that differ in what decides the sharing of a transition
\* state: the function, the aggregated arguments (with ORDER BY, DISTINCT,
\* FILTER, kind and collations), the direct arguments, whether the final
\* function may modify the state, the transition function, the initial
\* value, and the state type with its serialization function
SumDef == AggDef("agg", INT4OID, "int4pl", TRUE, InvalidOid, InvalidOid, FALSE, FALSE, "coercible", "none")
ShareDefs ==
    {[SumDef EXCEPT !.aggfnoid = f, !.args = a, !.aggdirectargs = da,
                    !.aggfinalmodify = fm, !.aggtransfn = tf,
                    !.initValueIsNull = iv[1], !.agginitval = iv[2],
                    !.aggtranstype = ty[1], !.aggserialfn = ty[2]] :
        f \in {"agg", "agg2"}, a \in {"x", "y", "random()"},
        da \in {"none", "random()"},
        fm \in {AGGMODIFY_READ_ONLY, AGGMODIFY_READ_WRITE},
        tf \in {"int4pl", "int4_sum"},
        iv \in {<<TRUE, 0>>, <<FALSE, 0>>, <<FALSE, 1>>},
        ty \in {<<INT4OID, InvalidOid>>, <<INTERNALOID, "send">>, <<INTERNALOID, "send2">>}}
FirstDefs ==
    {d \in ShareDefs : /\ d.aggfnoid = "agg" /\ d.args # "y"
                       /\ d.aggtransfn = "int4pl"
                       /\ ~d.initValueIsNull /\ d.agginitval = 0
                       /\ d.aggserialfn # "send2"}
ThirdDefs(f) ==
    {[d EXCEPT !.aggfnoid = f] :
        d \in {e \in ShareDefs : /\ e.aggfnoid = "agg" /\ e.args = "x"
                                  /\ ~e.initValueIsNull /\ e.agginitval = 0
                                  /\ e.aggtranstype = INT4OID}}
\* the aggregate lists whose sharing is followed: pairs, and triples of
\* aggregates over one input
ShareAggs ==
    {<<d, e>> : d \in FirstDefs, e \in ShareDefs}
    \cup {<<d, e, f>> : d \in ThirdDefs("agg"), e \in ThirdDefs("agg2"), f \in ThirdDefs("agg3")}
\* the split modes a planner issues
AggSplits ==
    {AGGSPLIT_SIMPLE, AGGSPLIT_INITIAL_SERIAL, AGGSPLIT_FINAL_DESERIAL,
     AggSplit(TRUE, TRUE, TRUE, TRUE)}

\* palloc0'ed descriptors before VExecInitAgg fills them
ZeroPerTrans == PerTrans(InvalidOid, FALSE, 0, 0, FALSE, 0, 0)
NoError == "none"
InitFailed(msg) == [error |-> msg, pertrans |-> ZeroPerTrans]

\* the component functions VExecInitAgg selects for one aggregate, or the
\* error it raises when the split mode needs one the aggregate lacks
SelectFns(as, d) ==
    LET internal == d.aggtranstype = INTERNALOID
    IN  IF DO_AGGSPLIT_COMBINE(as) /\ d.aggcombinefn = InvalidOid
          THEN [error |-> "combinefn not set for aggregate function"]
        ELSE IF internal /\ DO_AGGSPLIT_SERIALIZE(as) /\ d.aggserialfn = InvalidOid
          THEN [error |-> "serialfunc not provided for serialization aggregation"]
        ELSE IF internal /\ DO_AGGSPLIT_DESERIALIZE(as) /\ d.aggdeserialfn = InvalidOid
          THEN [error |-> "deserialfunc not provided for deserialization aggregation"]
        ELSE [error |-> NoError,
              transfn_oid |-> IF DO_AGGSPLIT_COMBINE(as) THEN d.aggcombinefn
                              ELSE d.aggtransfn,
              finalfn_oid |-> IF DO_AGGSPLIT_SKIPFINAL(as) THEN InvalidOid
                              ELSE d.aggfinalfn,
              shareable |-> \/ d.aggfinalmodify # AGGMODIFY_READ_WRITE
                            \/ DO_AGGSPLIT_SKIPFINAL(as),
              serialfn_oid |-> IF internal /\ DO_AGGSPLIT_SERIALIZE(as)
                                 THEN d.aggserialfn ELSE InvalidOid,
              deserialfn_oid |-> IF internal /\ DO_AGGSPLIT_DESERIALIZE(as)
                                   THEN d.aggdeserialfn ELSE InvalidOid]

\* initValue: (Datum) 0 for a null agginitval
initValue(d) == IF d.initValueIsNull THEN 0 ELSE d.agginitval

\* build_pertrans_for_aggref: the per-trans descriptor, or the error raised
build_pertrans_for_aggref(as, d, fns) ==
    IF DO_AGGSPLIT_COMBINE(as)
      THEN IF d.combinefn_strict /\ d.aggtranstype = INTERNALOID
             THEN InitFailed("combine function must not be declared STRICT")
             ELSE [error |-> NoError,
                   pertrans |->
                     [PerTrans(fns.transfn_oid, d.combinefn_strict, 1, initValue(d),
                               d.initValueIsNull, 0, 0)
                        EXCEPT !.serialfn_oid = fns.serialfn_oid]]
      ELSE IF /\ d.transfn_strict
              /\ d.initValueIsNull
              /\ d.input # "coercible"
             THEN InitFailed("aggregate needs to have compatible input type and transition type")
             ELSE [error |-> NoError,
                   pertrans |->
                     [PerTrans(fns.transfn_oid, d.transfn_strict,
                               IF d.input = "none" THEN 0 ELSE 1, initValue(d),
                               d.initValueIsNull, 0, 0)
                        EXCEPT !.serialfn_oid = fns.serialfn_oid]]

\* contain_volatile_functions over the whole Aggref
contain_volatile_functions(d) ==
    d.args = "random()" \/ d.aggdirectargs = "random()"
\* the fields find_compatible_peragg requires to be the same: collation,
\* state type, aggstar, aggvariadic, aggkind, args, aggorder, aggdistinct
\* and aggfilter
SameInputs(newagg, existingRef) ==
    /\ newagg.aggtranstype = existingRef.aggtranstype
    /\ newagg.input = existingRef.input
    /\ (newagg.nested = "args") = (existingRef.nested = "args")
    /\ newagg.args = existingRef.args
\* find_compatible_peragg: an earlier per-agg of the same Aggref
find_compatible_peragg(d, built) ==
    /\ ~contain_volatile_functions(d)
    /\ \E k \in DOMAIN built : SameInputs(d, built[k].aggref) /\ built[k].aggref = d
\* the list find_compatible_peragg collects on the way: the earlier
\* per-aggs over the same inputs whose final function permits sharing
same_input_transnos(d, built) ==
    IF contain_volatile_functions(d) THEN {}
    ELSE {k \in DOMAIN built : SameInputs(d, built[k].aggref) /\ built[k].shareable}
\* a mutant: a final function that modifies the state does not keep the
\* new aggregate from sharing
find_compatible_pertrans_unshareable(d, fns, built) ==
    {k \in same_input_transnos(d, built) :
        /\ built[k].pertrans.transfn = fns.transfn_oid
        /\ built[k].aggref.aggtranstype = d.aggtranstype
        /\ built[k].pertrans.serialfn_oid = fns.serialfn_oid
        /\ built[k].deserialfn_oid = fns.deserialfn_oid
        /\ \/ d.initValueIsNull /\ built[k].pertrans.initValueIsNull
           \/ /\ ~d.initValueIsNull /\ ~built[k].pertrans.initValueIsNull
              /\ initValue(d) = built[k].pertrans.initValue}
\* find_compatible_pertrans: the listed per-aggs whose per-trans has the
\* same transition function, state type, serialization functions and
\* initial value
find_compatible_pertrans(d, fns, built) ==
    IF ~fns.shareable THEN {}
    ELSE {k \in same_input_transnos(d, built) :
            /\ built[k].pertrans.transfn = fns.transfn_oid
            /\ built[k].aggref.aggtranstype = d.aggtranstype
            /\ built[k].pertrans.serialfn_oid = fns.serialfn_oid
            /\ built[k].deserialfn_oid = fns.deserialfn_oid
            /\ \/ d.initValueIsNull /\ built[k].pertrans.initValueIsNull
               \/ /\ ~d.initValueIsNull /\ ~built[k].pertrans.initValueIsNull
                  /\ initValue(d) = built[k].pertrans.initValue}
\* the first element of a non-empty list of per-aggs
FirstOf(S) == CHOOSE k \in S : \A m \in S : k <= m
\* the aggno find_compatible_peragg returns for an exact match
existing_aggno(d, built) ==
    FirstOf({k \in DOMAIN built : SameInputs(d, built[k].aggref) /\ built[k].aggref = d}) - 1
\* transno + 1 after the per-aggs built so far
NumTrans(built) == Cardinality({built[k].transno : k \in DOMAIN built})

\* the loop of VExecInitAgg over aggstate->aggs.  aggs is the list, which
\* grows when the direct arguments initialized here hold an aggregate call;
\* built the per-aggs made so far
RECURSIVE InitLoop(_, _, _, _, _)
InitLoop(as, aggs, i, built, aggnos) ==
    IF i > Len(aggs)
      THEN [error |-> NoError, aggs |-> aggs, built |-> built, aggnos |-> aggnos]
    ELSE LET d == aggs[i]
             fns == SelectFns(as, d)
             found == IF d.nested = "direct" THEN Append(aggs, CountDef) ELSE aggs
             aggno == Len(built)
         IN  IF find_compatible_peragg(d, built)
               THEN InitLoop(as, aggs, i + 1, built,
                             Append(aggnos, existing_aggno(d, built)))
             ELSE IF fns.error # NoError
               THEN [error |-> fns.error, aggs |-> aggs, built |-> built, aggnos |-> aggnos]
             ELSE IF find_compatible_pertrans(d, fns, built) # {}
               THEN LET k == FirstOf(find_compatible_pertrans(d, fns, built))
                    IN  InitLoop(as, found, i + 1,
                                 Append(built, [built[k] EXCEPT !.aggref = d,
                                                  !.finalfn_oid = fns.finalfn_oid,
                                                  !.shareable = fns.shareable]),
                                 Append(aggnos, aggno))
             ELSE LET b == build_pertrans_for_aggref(as, d, fns)
                  IN  IF b.error # NoError
                        THEN [error |-> b.error, aggs |-> found, built |-> built,
                              aggnos |-> aggnos]
                        ELSE InitLoop(as, found, i + 1,
                                      Append(built,
                                             [aggref |-> d, pertrans |-> b.pertrans,
                                              finalfn_oid |-> fns.finalfn_oid,
                                              deserialfn_oid |-> fns.deserialfn_oid,
                                              shareable |-> fns.shareable,
                                              transno |-> NumTrans(built)]),
                                      Append(aggnos, aggno))

\* aggrefstate->aggno of every Aggref of the node and peragg->transno of
\* every per-agg, with numaggs and numtrans, as the loop leaves them
NoSharing == [aggno |-> <<>>, transno |-> <<>>, numaggs |-> 0, numtrans |-> 0]
Sharing(l) ==
    [aggno |-> l.aggnos,
     transno |-> [k \in DOMAIN l.built |-> l.built[k].transno],
     numaggs |-> Len(l.built),
     numtrans |-> NumTrans(l.built)]

\* ExecBuildAggTrans initializes the regular arguments and FILTER of every
\* per-trans; execExpr.c adds the Aggrefs it finds there to aggstate->aggs
ExecBuildAggTrans(aggs, built) ==
    aggs \o [k \in 1..Cardinality({j \in DOMAIN built : built[j].aggref.nested = "args"})
               |-> CountDef]

\* the aggregate part of VExecInitAgg: the error raised, or the descriptors
\* of the first transition state and the list of aggregates left
InitAggregates(as, aggs) ==
    LET numaggs == Len(aggs)
        l == InitLoop(as, aggs, 1, <<>>, <<>>)
    IN  IF l.error # NoError THEN [error |-> l.error, aggs |-> aggs,
                                   pertrans |-> ZeroPerTrans, peraggs |-> <<>>,
                                   sharing |-> NoSharing]
        ELSE IF numaggs # Len(l.aggs)
          THEN [error |-> "aggregate function calls cannot be nested", aggs |-> aggs,
                pertrans |-> ZeroPerTrans, peraggs |-> <<>>, sharing |-> NoSharing]
        ELSE [error |-> NoError,
              aggs |-> ExecBuildAggTrans(l.aggs, l.built),
              pertrans |-> l.built[1].pertrans,
              peraggs |-> <<PerAgg(l.built[1].finalfn_oid, TRUE, 1, <<>>)>>,
              sharing |-> Sharing(l)]

(***************************************************************************)
(* State of SpecTrans: one transition state shared by two aggregates.      *)
(***************************************************************************)
VARIABLES
    aggdefs,         \* the aggregates of the plan node being initialized
    aggs,            \* aggstate->aggs, once initialized
    initstatus,      \* "start" before VExecInitAgg, then "ok" or its error
    sharing,         \* aggno of every Aggref, transno of every per-agg,
                     \* numaggs and numtrans
    aggsplit,        \* aggstate->aggsplit
    pertrans,        \* the per-trans descriptor in use
    peraggs,         \* the per-agg descriptors sharing it (same transno)
    pergroupstate,   \* AggStatePerGroupData of the group
    sortstate,       \* pertrans->sortstates[current_set]
    ncalls,          \* transition-function invocations since initialization
    log,             \* inputs advanced into the group since initialization
    last,            \* the last operation, its input and the state before it
    aggvalues,       \* econtext->ecxt_aggvalues/aggnulls of the last finalize
    prevFinal,       \* the results of the finalize before it, if nothing
                     \* was advanced in between
    nfinal           \* finalize calls since the last advance

transVars == <<aggdefs, aggs, initstatus, sharing, aggsplit, pertrans, peraggs, pergroupstate, sortstate, ncalls, log, last,
               aggvalues, prevFinal, nfinal>>

\* pairs of different final functions reading one transition state
PerAggPairs ==
    {<<NoFinal, StrictFinal>>, <<NonStrictFinal, ExtraArgFinal>>,
     <<StrictFinal, NonStrictFinal>>}
\* pairs of final functions that take direct arguments or extra positions
DirectArgPairs ==
    {<<StrictDirect, StrictNullDirect>>, <<DirectArgFinal, StrictPadded>>}
\* the descriptors VExecInitAgg can leave: under a split mode that skips
\* finalization no per-agg keeps a final function
TransCfgs ==
    ({AGGSPLIT_SIMPLE} \X PerTransConfigs \X PerAggPairs)
    \cup ({AGGSPLIT_SIMPLE} \X {SumAdopt, SumOrdered} \X DirectArgPairs)
    \cup ({AGGSPLIT_INITIAL_SERIAL} \X PartialTransConfigs \X {<<NoFinal, NoFinal>>})

NoResults == [valid |-> FALSE, vals |-> <<>>, fcalls |-> <<>>]
LastOp(op, args, pre, preCalls, steps) ==
    [op |-> op, args |-> args, pre |-> pre, preCalls |-> preCalls, steps |-> steps]

\* the argument rows the executor can load into fcinfo->args[1..]
ArgsFor(pt) ==
    CASE pt.numTransInputs = 0 -> {<<>>}
      [] pt.numTransInputs = 1 -> {<<d>> : d \in Datums}
      [] OTHER -> {<<d, e>> : d \in {NullDatum, Datum(1)}, e \in {NullDatum, Datum(2)}}

\* initialize_aggregate: a fresh sort for a DISTINCT/ORDER BY aggregate and
\* the transition value reset to the initial value
InitializeAggregate ==
    /\ last.op # "none" => nfinal > 0
    /\ pergroupstate' = initialize_aggregate(pertrans)
    /\ sortstate' = IF pertrans.numSortCols > 0 THEN BeginSort ELSE sortstate
    /\ ncalls' = 0
    /\ log' = <<>>
    /\ last' = LastOp("init", <<>>, pergroupstate, ncalls, <<>>)
    /\ aggvalues' = NoResults
    /\ prevFinal' = NoResults
    /\ nfinal' = 0
    /\ UNCHANGED <<aggdefs, aggs, initstatus, sharing, aggsplit, pertrans, peraggs>>

\* one input row of an aggregate without DISTINCT/ORDER BY
AdvanceInput ==
    /\ last.op # "none"
    /\ nfinal = 0
    /\ pertrans.numSortCols = 0
    /\ Len(log) < MaxOps
    /\ \E args \in ArgsFor(pertrans) :
         LET r == advance_transition_function(pertrans, pergroupstate, args)
         IN  /\ pergroupstate' = r.pergroup
             /\ ncalls' = ncalls + (IF r.called THEN 1 ELSE 0)
             /\ log' = Append(log, args)
             /\ last' = LastOp("advance", args, pergroupstate, ncalls, <<>>)
    /\ aggvalues' = NoResults
    /\ prevFinal' = NoResults
    /\ UNCHANGED <<aggdefs, aggs, initstatus, sharing, aggsplit, pertrans, peraggs, sortstate, nfinal>>

\* one input row of a DISTINCT/ORDER BY aggregate goes into its sort; a
\* strict transition function's null inputs are dropped before the sort
SortInput ==
    /\ last.op # "none"
    /\ nfinal = 0
    /\ pertrans.numSortCols > 0
    /\ sortstate.open
    /\ SortSize(sortstate) < MaxSortLen
    /\ \E args \in ArgsFor(pertrans) :
         /\ sortstate' = IF StrictSkips(pertrans, args) THEN sortstate
                         ELSE PutDatum(sortstate, args[1])
         /\ last' = LastOp("put", args, pergroupstate, ncalls, <<>>)
    /\ UNCHANGED <<aggdefs, aggs, initstatus, sharing, aggsplit, pertrans, peraggs, pergroupstate, ncalls, log, aggvalues,
                   prevFinal, nfinal>>

\* the final-function loop of finalize_aggregates over the aggregates that
\* share the transition state: results in aggno order and the state left
RECURSIVE FinalLoop(_, _, _, _, _, _)
FinalLoop(as, pt, finals, aggno, pg, out) ==
    IF aggno > Len(finals)
      THEN [vals |-> [i \in DOMAIN out |-> out[i].result],
            fcalls |-> [i \in DOMAIN out |->
                          [fn |-> out[i].fn, fcargs |-> out[i].fcargs]],
            pergroup |-> pg]
    ELSE LET r == FinalizeOne(as, pt, finals[aggno], pg)
         IN  FinalLoop(as, pt, finals, aggno + 1, r.pergroup, Append(out, r))

\* finalize_aggregates for the group
FinalizeAggregates ==
    /\ last.op # "none"
    /\ nfinal < 2
    /\ pertrans.numSortCols > 0 => sortstate.open
    /\ LET o == IF pertrans.numSortCols > 0
                  THEN process_ordered_aggregate_single(pertrans, pergroupstate, sortstate)
                  ELSE [pergroup |-> pergroupstate, steps |-> <<>>, calls |-> 0]
           f == FinalLoop(aggsplit, pertrans, peraggs, 1, o.pergroup, <<>>)
       IN  /\ pergroupstate' = f.pergroup
           /\ ncalls' = ncalls + o.calls
           /\ aggvalues' = [valid |-> TRUE, vals |-> f.vals, fcalls |-> f.fcalls]
           /\ last' = LastOp("finalize", <<>>, o.pergroup, ncalls, o.steps)
    /\ sortstate' = IF pertrans.numSortCols > 0
                      THEN [sortstate EXCEPT !.open = FALSE] ELSE sortstate
    /\ prevFinal' = aggvalues
    /\ nfinal' = nfinal + 1
    /\ UNCHANGED <<aggdefs, aggs, initstatus, sharing, aggsplit, pertrans, peraggs, log>>

TransStart ==
    /\ aggdefs = <<>>
    /\ aggs = <<>>
    /\ initstatus = "ok"
    /\ sharing = NoSharing
    /\ \E c \in TransCfgs :
          /\ aggsplit = c[1]
          /\ pertrans = c[2]
          /\ peraggs = c[3]
    /\ pergroupstate = ZeroPerGroup
    /\ sortstate = NoSort
    /\ ncalls = 0
    /\ log = <<>>
    /\ last = LastOp("none", <<>>, ZeroPerGroup, 0, <<>>)
    /\ aggvalues = NoResults
    /\ prevFinal = NoResults
    /\ nfinal = 0


(***************************************************************************)
(* The aggregation driver: batches, slots and the node's configuration.    *)
(***************************************************************************)
\* capacity of a batch
BATCHSIZE == 2
\* row positions the child delivers over one execution
MaxRows == 4
\* row positions the child delivers to a node with chained phases, a HAVING
\* clause or a sorting aggregate
MaxNodeRows == 2
\* rescans an execution is followed for
MaxRescans == 1

AVals == {1, 2}
BVals == {1, 2}
XVals == {5, 10, 20}

\* an input row: grouping columns a, b and the aggregated column x
InRow(a, b, x) == [a |-> a, b |-> b, x |-> x]
JunkRow == InRow(0, 0, 0)

\* a vector slot: TTS_FLAG_EMPTY, dim, skip[], the columns' values and the
\* isnull[] array of the one column that can hold a null (sum in a result
\* slot)
AllSkipped == [i \in 1..BATCHSIZE |-> TRUE]
NoNulls == [i \in 1..BATCHSIZE |-> FALSE]
VSlot(empty, dim, skip, rows) ==
    [empty |-> empty, dim |-> dim, skip |-> skip, rows |-> rows, isnull |-> NoNulls]
\* column->isnull[] as buildvtype leaves it for a new column: every flag
\* clear or every flag set
ColumnNullInits == {[i \in 1..BATCHSIZE |-> f] : f \in BOOLEAN}

\* an output row: the values the driver writes into the result columns
OutRow(a, b, cnt, sum) == [a |-> a, b |-> b, cnt |-> cnt, sum |-> sum]
ZeroOut == OutRow(0, 0, 0, 0)

\* tts_vector_init: empty, dim 0, every row skipped
tts_vector_init(zero) == VSlot(TRUE, 0, AllSkipped, [i \in 1..BATCHSIZE |-> zero])

\* tts_vector_clear: nothing for an empty slot, else empty, dim 0 and every
\* row skipped; the column values stay
tts_vector_clear(slot) ==
    IF slot.empty THEN slot
    ELSE [slot EXCEPT !.empty = TRUE, !.dim = 0, !.skip = AllSkipped]

TupIsNull(slot) == slot.empty

\* node configurations (Agg plan node): strategy, number of grouping
\* columns, gset_lengths of the sorted phase
\* a chained Agg node below a Sort: its grouping columns in sort order, the
\* number of them and the lengths of its grouping sets
ChainAgg(keys, gsets) ==
    [keys |-> keys, numCols |-> Len(keys), gset_lengths |-> gsets,
     aggstrategy |-> "AGG_SORTED"]
\* a chained Agg node that is hashed on its grouping columns
ChainHash(keys) == [ChainAgg(keys, <<>>) EXCEPT !.aggstrategy = "AGG_HASHED"]

\* keys, numCols and gset_lengths are those of the node itself; chain holds
\* the sorted Agg nodes chained to it, qual tells whether the node has a
\* HAVING clause, hasSortAgg whether one of its aggregates has DISTINCT or
\* ORDER BY
AggCfg(strategy, numCols, gsets) ==
    [aggstrategy |-> strategy, numCols |-> numCols, gset_lengths |-> gsets,
     keys |-> <<"a", "b">>, chain |-> <<>>, qual |-> FALSE, hasSortAgg |-> FALSE,
     phasestrategy |-> strategy, grpColIdx |-> <<"a", "b">>]
CfgPlain == AggCfg("AGG_PLAIN", 0, <<>>)
CfgSorted == AggCfg("AGG_SORTED", 1, <<>>)
CfgRollup == AggCfg("AGG_SORTED", 2, <<2, 1, 0>>)
CfgHashed == AggCfg("AGG_HASHED", 1, <<>>)
AggCfgs == {CfgPlain, CfgSorted, CfgRollup, CfgHashed}

\* GROUPING SETS ((a), (b)) by two sorts: phase 1 groups by a, phase 2 by b
CfgTwoSorts ==
    [AggCfg("AGG_SORTED", 1, <<1>>) EXCEPT !.chain = <<ChainAgg(<<"b">>, <<1>>)>>]
\* GROUPING SETS ((a), (b)) with a hashed and b sorted
CfgMixed ==
    [AggCfg("AGG_MIXED", 1, <<1>>) EXCEPT !.chain = <<ChainAgg(<<"b">>, <<1>>)>>]
\* GROUP BY ROLLUP (a) with an aggregate that sorts its input
CfgSortAgg == [AggCfg("AGG_SORTED", 1, <<1, 0>>) EXCEPT !.hasSortAgg = TRUE]
\* GROUPING SETS ((a), (b), (x)) by three sorts
CfgThreeSorts ==
    [AggCfg("AGG_SORTED", 1, <<1>>)
        EXCEPT !.chain = <<ChainAgg(<<"b">>, <<1>>), ChainAgg(<<"x">>, <<1>>)>>]
\* GROUPING SETS ((a), (b), (x), (b)) with a and b hashed and x and b sorted
CfgMixedTwoHashes ==
    [AggCfg("AGG_MIXED", 1, <<1>>)
        EXCEPT !.chain = <<ChainHash(<<"b">>), ChainAgg(<<"x">>, <<1>>),
                           ChainAgg(<<"b">>, <<1>>)>>]
\* GROUPING SETS ((a), (b)) with both sets hashed
CfgHashedTwoSets == [CfgHashed EXCEPT !.chain = <<ChainHash(<<"b">>)>>]
\* HAVING count(*) > 1
CfgPlainHaving == [CfgPlain EXCEPT !.qual = TRUE]
CfgHashedHaving == [CfgHashed EXCEPT !.qual = TRUE]
\* GROUP BY a with an aggregate that sorts its input
CfgGroupSortAgg == [CfgSorted EXCEPT !.hasSortAgg = TRUE]
\* GROUPING SETS ((a), (), (b), ()) by two sorts
CfgTwoRollups ==
    [AggCfg("AGG_SORTED", 1, <<1, 0>>) EXCEPT !.chain = <<ChainAgg(<<"b">>, <<1, 0>>)>>]
NodeCfgs ==
    {CfgTwoSorts, CfgThreeSorts, CfgMixed, CfgMixedTwoHashes, CfgHashedTwoSets,
     CfgSortAgg, CfgPlainHaving, CfgHashedHaving}
\* sorted nodes with and without grouping sets, in one and in two phases
SortedCfgs == {CfgGroupSortAgg, CfgSortAgg, CfgTwoRollups}

use_hashing(c) == c.aggstrategy \in {"AGG_HASHED", "AGG_MIXED"}
\* the chained nodes that get a phase of their own, and those that add a
\* hash table to phase 0
SortedChain(c) == SelectSeq(c.chain, LAMBDA n : n.aggstrategy # "AGG_HASHED")
HashChain(c) == SelectSeq(c.chain, LAMBDA n : n.aggstrategy = "AGG_HASHED")
numphases(c) == (IF use_hashing(c) THEN 1 ELSE 2) + Len(SortedChain(c))
num_hashes(c) == (IF use_hashing(c) THEN 1 ELSE 0) + Len(HashChain(c))
\* perhash[setno].aggnode->grpColIdx: set 0 is the node itself, whose
\* grouping columns c.grpColIdx names in every phase
HashKey(c, setno) == IF setno = 0 THEN c.grpColIdx[1] ELSE HashChain(c)[setno].keys[1]
numsets(c) == Len(c.gset_lengths)
numGroupingSets(c) == IF numsets(c) > 1 THEN numsets(c) ELSE 1

\* aggstate->maxsets, at least 1
maxsets(c) ==
    LET lens == {numsets(c)} \cup {Len(c.chain[i].gset_lengths) : i \in DOMAIN c.chain}
    IN  CHOOSE n \in lens \cup {1} : \A m \in lens \cup {1} : m <= n

\* the node as phase p sees it: aggstate->phase->aggnode with its grouping
\* columns and grouping sets, and aggstate->phase->aggstrategy
PhaseView(c, p) ==
    LET first == IF use_hashing(c) THEN 1 ELSE 2
    IN  IF p < first
          THEN [c EXCEPT !.phasestrategy = c.aggstrategy]
          ELSE [c EXCEPT !.keys = SortedChain(c)[p - first + 1].keys,
                         !.numCols = SortedChain(c)[p - first + 1].numCols,
                         !.gset_lengths = SortedChain(c)[p - first + 1].gset_lengths,
                         !.phasestrategy = "AGG_SORTED"]

\* the aggregates of the node: COUNT(*) and SUM(x), no final functions
DriverTrans == <<CountStar, SumAdopt>>
TransArgs(transno, row) == IF transno = 1 THEN <<>> ELSE <<Datum(row.x)>>
FreshGroup == [transno \in 1..Len(DriverTrans) |-> initialize_aggregate(DriverTrans[transno])]
ZeroGroup == [transno \in 1..Len(DriverTrans) |-> ZeroPerGroup]

\* a tuplesort: NULL or open with the items put into it
Sorter(open, items) == [open |-> open, items |-> items, keys |-> <<>>]
NoSorter == Sorter(FALSE, <<>>)

\* tuplesort_begin_heap on the sort columns of the Sort node of a phase
SortFor(c, p) == [Sorter(TRUE, <<>>) EXCEPT !.keys = PhaseView(c, p).keys]

\* a mutant: a step forward lands on phase 0
initialize_phase_rewind(c, st, newphase) ==
    [st EXCEPT !.sort_in = IF newphase <= 1 THEN NoSorter ELSE st.sort_out,
               !.sort_out = IF newphase > 0 /\ newphase < numphases(c) - 1
                              THEN SortFor(c, newphase + 1) ELSE NoSorter,
               !.current_phase = IF newphase > 1 THEN 0 ELSE newphase]

\* initialize_phase: the input sort in use is closed; a reset discards the
\* output sort, a step forward makes it the sorted input; a phase that is
\* not the last gets an output sort for the next one
initialize_phase(c, st, newphase) ==
    [st EXCEPT !.sort_in = IF newphase <= 1 THEN NoSorter ELSE st.sort_out,
               !.sort_out = IF newphase > 0 /\ newphase < numphases(c) - 1
                              THEN SortFor(c, newphase + 1) ELSE NoSorter,
               !.current_phase = newphase]

\* the result of UB in a read through a NULL result pointer: the process
\* faults, or the read yields some row and execution continues
UBOutcomes == {"fault", "zero", "stale"}

\* a hash table: for every key whether it has an entry, and the entry's
\* transition states
EmptyTable == [k \in AVals |-> [present |-> FALSE, additional |-> ZeroGroup]]

\* VExecInitAgg: the run-time state of the node
VExecInitAgg(c) ==
  initialize_phase(c,
    [current_phase |-> IF c.aggstrategy = "AGG_HASHED" THEN 0 ELSE 1,
     sort_in |-> NoSorter,
     sort_out |-> NoSorter,
     sortstates |-> [setno \in 1..maxsets(c) |-> FALSE],
     nbegun |-> [setno \in 1..maxsets(c) |-> 0],
     nended |-> [setno \in 1..maxsets(c) |-> 0],
     nullsort |-> FALSE,
     filtered |-> 0,
     ub |-> "fault",
     iterorder |-> <<>>,
     projected_set |-> -1,
     current_set |-> 0,
     input_done |-> FALSE,
     agg_done |-> FALSE,
     table_filled |-> FALSE,
     grp_firstTuple |-> FALSE,
     pergroups |-> [setno \in 1..maxsets(c) |-> ZeroGroup],
     perhash |-> [setno \in 1..num_hashes(c) |-> EmptyTable],
     hashiter |-> <<>>,
     scanRow |-> JunkRow,
     scanEmpty |-> TRUE,
     firstSlot |-> "scan",
     outerslot |-> "uninit",
     ecxt_outertuple |-> "none",
     tmp_outertuple |-> "none",
     numReset |-> 0],
    IF c.aggstrategy = "AGG_HASHED" THEN 0 ELSE 1)

\* the row a scalar expression sees in a slot reference: row 0 of a batch
SlotRow(st, outer, ref) ==
    IF ref = "scan" THEN st.scanRow ELSE outer.rows[1]

\* phase->eqfunctions[n - 1]: equality on the first n grouping columns of
\* the phase
eqfunctions(c, n, inner, outer) ==
    \A j \in 1..n : inner[c.keys[j]] = outer[c.keys[j]]

\* advance_transition_function for every aggregate of one group
AdvanceGroup(pergroup, row) ==
    [transno \in 1..Len(DriverTrans) |->
        advance_transition_function(DriverTrans[transno], pergroup[transno],
                                    TransArgs(transno, row)).pergroup]

\* the transition expression of a sorted/plain phase: every valid row of the
\* batch advances the current group of every grouping set of the phase
RECURSIVE AdvanceSorted(_, _, _, _)
AdvanceSorted(pergroups, n, slot, i) ==
    IF i > BATCHSIZE THEN pergroups
    ELSE IF i <= slot.dim /\ ~slot.skip[i]
      THEN AdvanceSorted([setno \in DOMAIN pergroups |->
                              IF setno <= n
                                THEN AdvanceGroup(pergroups[setno], slot.rows[i])
                                ELSE pergroups[setno]],
                         n, slot, i + 1)
    ELSE AdvanceSorted(pergroups, n, slot, i + 1)

\* a mutant: the states of a new entry stay as they were allocated
NewHashEntryUninit(trans) ==
    [present |-> TRUE, additional |-> [transno \in 1..Len(trans) |-> ZeroPerGroup]]

\* a new entry of a hash table: initialize_aggregate for every pertrans
NewHashEntry(trans) ==
    [present |-> TRUE,
     additional |-> [transno \in 1..Len(trans) |-> initialize_aggregate(trans[transno])]]

\* pergroupVector: palloc0 leaves every position NULL
NullEntry == 0
NoLookup(hashtable) ==
    [hashtable |-> hashtable, pergroupVector |-> [i \in 1..BATCHSIZE |-> NullEntry],
     nprobes |-> 0]

\* lookup_hash_entry: every row of the batch that is not skipped is looked
\* up by its key with LookupTupleHashEntry, which finds the entry or creates
\* it; pergroupVector[i] refers to the entry of row i (an entry is referred
\* to by its key)
RECURSIVE LookupLoop(_, _, _, _)
LookupLoop(acc, col, slot, i) ==
    IF i > BATCHSIZE THEN acc
    ELSE IF slot.skip[i] THEN LookupLoop(acc, col, slot, i + 1)
    ELSE LET k == slot.rows[i][col]
             isnew == ~acc.hashtable[k].present
         IN  LookupLoop([acc EXCEPT !.hashtable[k] = IF isnew THEN NewHashEntry(DriverTrans)
                                                     ELSE @,
                                    !.pergroupVector[i] = k,
                                    !.nprobes = @ + 1],
                        col, slot, i + 1)
lookup_hash_entry(hashtable, col, slot) == LookupLoop(NoLookup(hashtable), col, slot, 1)

\* a mutant: only hash set 0 is looked up
lookup_hash_entries_first(c, perhash, slot) ==
    [setno \in DOMAIN perhash |->
        IF setno = 1 THEN lookup_hash_entry(perhash[setno], HashKey(c, 0), slot)
        ELSE NoLookup(perhash[setno])]

\* lookup_hash_entries: lookup_hash_entry for setno = 0 .. num_hashes - 1;
\* hash_pergroup[setno] is the pergroupVector of the set
lookup_hash_entries(c, perhash, slot) ==
    [setno \in DOMAIN perhash |->
        lookup_hash_entry(perhash[setno], HashKey(c, setno - 1), slot)]

\* the transition expression of a hashed set: row i advances the group
\* pergroupVector[i]
RECURSIVE AdvanceHashed(_, _, _, _)
AdvanceHashed(hashtable, pergroupVector, slot, i) ==
    IF i > BATCHSIZE THEN hashtable
    ELSE IF slot.skip[i] \/ pergroupVector[i] = NullEntry
      THEN AdvanceHashed(hashtable, pergroupVector, slot, i + 1)
    ELSE AdvanceHashed([hashtable EXCEPT ![pergroupVector[i]].additional =
                            AdvanceGroup(@, slot.rows[i])],
                       pergroupVector, slot, i + 1)

\* the hashed transitions of advance_aggregates over the pergroupVectors
\* lookup_hash_entries left in hash_pergroup
AdvanceHashes(hash_pergroup, slot) ==
    [setno \in DOMAIN hash_pergroup |->
        AdvanceHashed(hash_pergroup[setno].hashtable,
                      hash_pergroup[setno].pergroupVector, slot, 1)]

\* initialize_aggregates: the first numReset grouping sets start a new group
initialize_aggregates(c, pergroups, numReset) ==
    LET n == IF numReset = 0 THEN numGroupingSets(c) ELSE numReset
    IN  [setno \in DOMAIN pergroups |->
            IF setno <= n THEN FreshGroup ELSE pergroups[setno]]

\* initialize_aggregate for an aggregate with DISTINCT or ORDER BY: each
\* grouping set that starts a new group gets a fresh sort
BeginSorts(c, sortstates, numReset) ==
    LET n == IF numReset = 0 THEN numGroupingSets(c) ELSE numReset
    IN  [setno \in DOMAIN sortstates |->
            IF c.hasSortAgg /\ setno <= n THEN TRUE ELSE sortstates[setno]]

\* the tuplesorts initialize_aggregate begins and those it ends first
\* because the handle of the set is still set
CountBegun(c, st, numReset) ==
    LET n == IF numReset = 0 THEN numGroupingSets(c) ELSE numReset
    IN  [st EXCEPT
           !.nbegun = [setno \in DOMAIN @ |->
                          IF c.hasSortAgg /\ setno <= n THEN @[setno] + 1 ELSE @[setno]],
           !.nended = [setno \in DOMAIN @ |->
                          IF c.hasSortAgg /\ setno <= n /\ st.sortstates[setno]
                            THEN @[setno] + 1 ELSE @[setno]]]

\* the ordered transition step of advance_aggregates puts the row into
\* pertrans->sortstates[setno] of every grouping set of the phase
PutSorts(c, st) ==
    [st EXCEPT !.nullsort = \/ @
                            \/ /\ c.hasSortAgg
                               /\ \E setno \in 1..numGroupingSets(c) : ~st.sortstates[setno]]

\* a mutant: the handle is not cleared after tuplesort_end
EndSortKeepsHandle(c, st, setno) ==
    IF ~c.hasSortAgg THEN st
    ELSE [st EXCEPT !.nended[setno] = @ + 1,
                    !.nullsort = @ \/ ~st.sortstates[setno]]

\* process_ordered_aggregate_single / _multi for the set being finalized:
\* the sort is read, then tuplesort_end and sortstates[current_set] = NULL
EndSort(c, st, setno) ==
    IF ~c.hasSortAgg THEN st
    ELSE [st EXCEPT !.sortstates[setno] = FALSE,
                    !.nended[setno] = @ + 1,
                    !.nullsort = @ \/ ~st.sortstates[setno]]

\* finalize_aggregates: ecxt_aggvalues / ecxt_aggnulls of one group
finalize_aggregates(pergroup) ==
    [aggno \in 1..Len(DriverTrans) |-> finalize_aggregate(NoFinal, pergroup[aggno]).result]

\* the node's qual (HAVING count(*) > 1) over the aggregate values
ExecQual(c, aggvals) == ~c.qual \/ aggvals[1].value > 1

\* project_aggregates: the result row formed from the representative row and
\* the aggregate values, or NULL when the qual rejects the group
project_aggregates(c, rep, aggvals) ==
    IF ExecQual(c, aggvals)
      THEN [null |-> FALSE,
            row |-> OutRow(rep.a, rep.b, aggvals[1].value, aggvals[2].value)]
      ELSE [null |-> TRUE, row |-> ZeroOut]

\* result->tts_values[i] for each column: the row of the result slot; through
\* a NULL result the read is undefined, st.ub being what it yields
ReadResult(st, result, old) ==
    IF ~result.null THEN result.row
    ELSE IF st.ub = "zero" THEN ZeroOut ELSE old

\* InstrCountFiltered1 of project_aggregates
CountFiltered(st, result) ==
    [st EXCEPT !.filtered = IF result.null THEN @ + 1 ELSE @]

\* a suspended or finished call: node state, result slot, what the call
\* returned, where it stands, and the rows it placed into the result slot
Call(st, vs, ret, pc, placed) ==
    [st |-> st, vs |-> vs, ret |-> ret, pc |-> pc, placed |-> placed]

\* agg_retrieve_direct from prepare_projection_slot to the return of the
\* result slot
ProjectGroup(c, st, vs, outer) ==
    LET currentSet == st.projected_set
        rep == SlotRow(st, outer, st.ecxt_outertuple)
        result == project_aggregates(c, rep, finalize_aggregates(st.pergroups[currentSet + 1]))
        cleared == tts_vector_clear(vs)
        vslot == [cleared EXCEPT !.rows[1] = ReadResult(st, result, @),
                                 !.skip[1] = FALSE, !.empty = FALSE]
        st1 == CountFiltered(EndSort(c, [st EXCEPT !.current_set = currentSet],
                                     currentSet + 1),
                             result)
    IN  IF result.null /\ st.ub = "fault"
          THEN Call(st1, cleared, "fault", "crashed", 0)
          ELSE Call(st1, vslot, "slot", "idle", 1)

\* the top of the inner for(;;) loop: advance the aggregates with the batch
\* in tmpcontext->ecxt_outertuple, then fetch
AdvanceAndFetch(c, st, vs, outer) ==
    LET mixed == c.aggstrategy = "AGG_MIXED" /\ st.current_phase = 1
    IN  Call([PutSorts(c, st)
                 EXCEPT !.pergroups = AdvanceSorted(@, numGroupingSets(c), outer, 1),
                        !.perhash = IF mixed
                                      THEN AdvanceHashes(lookup_hash_entries(c, @, outer), outer)
                                      ELSE @,
                        !.current_set = IF mixed THEN num_hashes(c) - 1 ELSE @],
             vs, "none", "loop_fetch", 0)

\* from initialize_aggregates on; firstSlot becomes the local outerslot, which
\* a call entered with grp_firstTuple already set has not assigned ("uninit")
StartGroup(c, st, vs, outer) ==
    LET st1 == [CountBegun(c, st, st.numReset)
                   EXCEPT !.pergroups = initialize_aggregates(c, @, st.numReset),
                          !.sortstates = BeginSorts(c, @, st.numReset)]
    IN  IF st1.grp_firstTuple
          THEN AdvanceAndFetch(c, [st1 EXCEPT !.firstSlot = st1.outerslot,
                                              !.grp_firstTuple = FALSE,
                                              !.tmp_outertuple = st1.outerslot],
                               vs, outer)
          ELSE ProjectGroup(c, [st1 EXCEPT !.ecxt_outertuple = st1.firstSlot], vs, outer)

\* the body of the outer loop after the phase check
GroupBody(c, st, vs, outer) ==
    LET nextSetSize == IF st.projected_set >= 0
                          /\ st.projected_set < numGroupingSets(c) - 1
                         THEN c.gset_lengths[st.projected_set + 2] ELSE 0
        boundary == \/ st.input_done
                    \/ /\ c.aggstrategy # "AGG_PLAIN"
                       /\ st.projected_set # -1
                       /\ st.projected_set < numGroupingSets(c) - 1
                       /\ nextSetSize > 0
                       /\ ~eqfunctions(c, nextSetSize,
                                       SlotRow(st, outer, st.ecxt_outertuple),
                                       SlotRow(st, outer, st.tmp_outertuple))
    IN  IF boundary
          THEN ProjectGroup(c, [st EXCEPT !.projected_set = @ + 1], vs, outer)
        ELSE IF ~st.grp_firstTuple
          THEN Call([st EXCEPT !.projected_set = 0], vs, "none", "first_fetch", 0)
        ELSE StartGroup(c, [st EXCEPT !.projected_set = 0], vs, outer)

\* agg_retrieve_hash_table: one result row per entry the iterator yields,
\* written at position row, until BATCHSIZE rows are placed or the entries
\* run out; the function returns NULL on every path
RECURSIVE RetrieveLoop(_, _, _, _)
RetrieveLoop(c, st, vs, row) ==
    IF st.agg_done THEN Call(st, vs, "null", "idle", row)
    ELSE IF st.hashiter = <<>>
      THEN IF st.current_set + 1 < num_hashes(c)
             THEN RetrieveLoop(c, [st EXCEPT !.current_set = @ + 1,
                                             !.hashiter = st.iterorder[st.current_set + 2]],
                               vs, row)
             ELSE RetrieveLoop(c, [st EXCEPT !.agg_done = TRUE], vs, row)
    ELSE LET k == Head(st.hashiter)
             entry == st.perhash[st.current_set + 1][k]
             firstRow == [JunkRow EXCEPT ![HashKey(c, st.current_set)] = k]
             result == project_aggregates(c, firstRow, finalize_aggregates(entry.additional))
             st1 == CountFiltered([st EXCEPT !.hashiter = Tail(@),
                                             !.scanRow = firstRow,
                                             !.scanEmpty = FALSE,
                                             !.ecxt_outertuple = "scan"],
                                  result)
             vs1 == [vs EXCEPT !.rows[row + 1] = ReadResult(st, result, @)]
         IN  IF result.null /\ st.ub = "fault"
               THEN Call(st1, vs, "fault", "crashed", row)
             ELSE IF row + 1 = BATCHSIZE
               THEN Call(st1, vs1, "null", "idle", row + 1)
               ELSE RetrieveLoop(c, st1, vs1, row + 1)

agg_retrieve_hash_table(c, st, vs) ==
    RetrieveLoop(c, st, tts_vector_clear(vs), 0)

\* the orders in which the iterator of a hash table can yield its entries,
\* and a choice of one order for every hash table of the node
Present(hashtable) == {k \in AVals : hashtable[k].present}
SeqsOf(S) == {q \in [1..Cardinality(S) -> S] : \A i, j \in DOMAIN q : i # j => q[i] # q[j]}
IterOrders(perhash) ==
    {o \in [DOMAIN perhash -> UNION {SeqsOf(T) : T \in SUBSET AVals}] :
        \A setno \in DOMAIN perhash : o[setno] \in SeqsOf(Present(perhash[setno]))}
\* perhash[setno].hashtable
HashTable(st, setno) == st.perhash[setno + 1]

\* a mutant: the node never counts as done
AggNeverDone(st) == FALSE

\* node->agg_done as VExecAgg and the loop of agg_retrieve_direct test it
AggDone(st) == st.agg_done

\* a mutant: the last phase is never entered
MorePhasesButLast(c, st) == st.current_phase < numphases(c) - 2

\* aggstate->current_phase < aggstate->numphases - 1
MorePhases(c, st) == st.current_phase < numphases(c) - 1

\* the step to the next phase: initialize_phase, input_done = false,
\* projected_set = -1, numReset = the new phase's number of grouping sets
AdvancePhase(c, st) ==
    [initialize_phase(c, st, st.current_phase + 1)
        EXCEPT !.input_done = FALSE,
               !.projected_set = -1,
               !.numReset = numGroupingSets(PhaseView(c, st.current_phase + 1))]

\* agg_retrieve_direct from the top of the outer loop
agg_retrieve_direct(c, st, vs, outer) ==
    IF AggDone(st) THEN Call(st, vs, "null", "idle", 0)
    ELSE LET numReset == IF st.projected_set >= 0
                            /\ st.projected_set < numGroupingSets(c)
                           THEN st.projected_set + 1 ELSE numGroupingSets(c)
             st0 == [st EXCEPT !.numReset = numReset]
         IN  IF st.input_done /\ st.projected_set >= numGroupingSets(c) - 1
               THEN IF MorePhases(c, st)
                      THEN GroupBody(PhaseView(c, st.current_phase + 1),
                                     AdvancePhase(c, st0), vs, outer)
                    ELSE IF c.aggstrategy = "AGG_MIXED"
                      THEN agg_retrieve_hash_table(c,
                               [initialize_phase(c, st0, 0)
                                   EXCEPT !.table_filled = TRUE,
                                          !.hashiter = st.iterorder[1],
                                          !.current_set = 0],
                               vs)
                    ELSE Call([st0 EXCEPT !.agg_done = TRUE], vs, "null", "idle", 0)
               ELSE GroupBody(c, st0, vs, outer)

\* a mutant: an empty input never produces a row
NoRowForAnyEmptyInput(c) == TRUE

\* no input at all and no grouping sets: a grouping node produces no row
NoRowForEmptyInput(c) == c.aggstrategy # "AGG_PLAIN"

\* a mutant: with no input the first grouping set is projected whatever its
\* length
SkipNoSets(c, ps) == ps

\* no input at all and grouping sets: projected_set moves past the grouping
\* sets that have grouping columns, up to numGroupingSets
RECURSIVE SkipNonEmptySets(_, _)
SkipNonEmptySets(c, ps) ==
    IF c.gset_lengths[ps + 1] > 0
      THEN (IF ps + 1 >= numGroupingSets(c) THEN ps + 1 ELSE SkipNonEmptySets(c, ps + 1))
      ELSE ps

\* agg_retrieve_direct after the fetch of the first batch of a group
AfterFirstFetch(c, st, vs, outer) ==
    LET st0 == [st EXCEPT !.outerslot = "outer"]
    IN  IF ~TupIsNull(outer)
          THEN StartGroup(c, [st0 EXCEPT !.grp_firstTuple = TRUE], vs, outer)
        ELSE IF numsets(c) > 0
          THEN LET ps1 == SkipNonEmptySets(c, st0.projected_set)
                   st1 == [st0 EXCEPT !.input_done = TRUE, !.projected_set = ps1]
               IN  IF ps1 >= numGroupingSets(c)
                     THEN agg_retrieve_direct(c, st1, vs, outer)
                     ELSE StartGroup(c, st1, vs, outer)
        ELSE IF NoRowForEmptyInput(c)
          THEN Call([st0 EXCEPT !.agg_done = TRUE], vs, "null", "idle", 0)
        ELSE StartGroup(c, [st0 EXCEPT !.agg_done = TRUE], vs, outer)

\* agg_retrieve_direct after a fetch inside the group loop
AfterLoopFetch(c, st, vs, outer) ==
    LET st0 == [st EXCEPT !.outerslot = "outer"]
        done == [st0 EXCEPT !.ecxt_outertuple = st0.firstSlot]
    IN  IF TupIsNull(outer)
          THEN IF numsets(c) > 0
                 THEN ProjectGroup(c, [done EXCEPT !.input_done = TRUE], vs, outer)
                 ELSE ProjectGroup(c, [done EXCEPT !.agg_done = TRUE], vs, outer)
        ELSE LET st1 == [st0 EXCEPT !.tmp_outertuple = "outer"]
             IN  IF /\ c.aggstrategy # "AGG_PLAIN"
                    /\ ~eqfunctions(c, c.numCols, SlotRow(st1, outer, st1.firstSlot),
                                    SlotRow(st1, outer, "outer"))
                   THEN ProjectGroup(c, [st1 EXCEPT !.grp_firstTuple = TRUE,
                                                    !.ecxt_outertuple = st1.firstSlot],
                                     vs, outer)
                   ELSE AdvanceAndFetch(c, st1, vs, outer)

\* agg_fill_hash_table after a fetch; st.iterorder holds the orders in
\* which the iterators, once reset, will yield the entries
AfterFillFetch(c, st, vs, outer) ==
    IF TupIsNull(outer)
      THEN agg_retrieve_hash_table(c, [st EXCEPT !.table_filled = TRUE,
                                                 !.current_set = 0,
                                                 !.hashiter = st.iterorder[1]], vs)
      ELSE Call([st EXCEPT !.tmp_outertuple = "outer",
                           !.perhash = AdvanceHashes(lookup_hash_entries(c, @, outer), outer),
                           !.current_set = num_hashes(c) - 1],
                vs, "none", "fill_fetch", 0)

\* VExecAgg up to its first fetch or its return
VExecAggEntry(c, st, vs, outer) ==
    IF AggDone(st) THEN Call(st, vs, "null", "idle", 0)
    ELSE IF c.phasestrategy = "AGG_HASHED" /\ ~st.table_filled
      THEN Call(st, vs, "none", "fill_fetch", 0)
    ELSE IF c.phasestrategy \in {"AGG_HASHED", "AGG_MIXED"}
      THEN agg_retrieve_hash_table(c, st, vs)
    ELSE agg_retrieve_direct(c, [st EXCEPT !.firstSlot = "scan",
                                           !.outerslot = "uninit"], vs, outer)

(***************************************************************************)
(* The scan executor (VExecScan / ExecScanFetch).                          *)
(***************************************************************************)
\* batches the access method delivers before it reports end-of-data
MaxScanBatches == 2

\* fetches a scan is followed for
MaxScanFetches == 4

\* column values of scanned rows; 0 stands in a position that holds no row
ScanVals == {1, 2}

\* what a fetch hands back: a NULL pointer or a slot (the scan slot, the
\* slot registered by the re-validation caller, the projection result slot)
SlotPtr(ref, slot) == [ref |-> ref, slot |-> slot]
NullPtr == SlotPtr("NULL", tts_vector_init(0))
AnyRowLeft(slot) == \E i \in 1..BATCHSIZE : ~slot.skip[i]

\* a mutant: a batch without a valid row counts as no batch
PtrIsNullOrNoRow(p) == p.ref = "NULL" \/ TupIsNull(p.slot) \/ ~AnyRowLeft(p.slot)

\* TupIsNull(slot)
PtrIsNull(p) == p.ref = "NULL" \/ TupIsNull(p.slot)

\* the plan node: qual, projection, scanrelid
ScanCfgs == [qual : BOOLEAN, projInfo : BOOLEAN, scanrelid : {0, 1}]

\* a test row as the re-validation caller supplies it
TestSlots ==
    {VSlot(FALSE, 1, [i \in 1..BATCHSIZE |-> i > 1],
           [i \in 1..BATCHSIZE |-> IF i = 1 THEN v ELSE 0]) : v \in ScanVals}

\* estate->es_epq_active and the EPQState fields of the scanned relation
EPQ(active, done, slot, rowmark) ==
    [active |-> active, relsubs_done |-> done, relsubs_slot |-> slot,
     relsubs_rowmark |-> rowmark]
NoEPQ == EPQ(FALSE, FALSE, NullPtr, FALSE)
EPQStates ==
    {NoEPQ, EPQ(TRUE, FALSE, NullPtr, FALSE), EPQ(TRUE, FALSE, NullPtr, TRUE),
     EPQ(TRUE, FALSE, SlotPtr("epq", tts_vector_init(0)), FALSE)}
    \cup {EPQ(TRUE, FALSE, SlotPtr("epq", t), FALSE) : t \in TestSlots}

\* the batches the access method can store into the scan slot: dim rows,
\* some of them already skipped, every position from dim on skipped
AMBatches ==
    {VSlot(FALSE, Len(f),
           [i \in 1..BATCHSIZE |-> i > Len(f) \/ f[i] = 0],
           [i \in 1..BATCHSIZE |-> IF i <= Len(f) THEN f[i] ELSE 0]) :
        f \in UNION {[1..d -> ScanVals \cup {0}] : d \in 1..BATCHSIZE}}

\* the outcome of one ExecScanFetch: the pointer returned, the scan slot and
\* the EPQ state it leaves, whether it called the access method and what
\* the recheck method answered if it was called
Fetched(ptr, scan, epq, am, recheck) ==
    [ptr |-> ptr, scan |-> scan, epq |-> epq, am |-> am, recheck |-> recheck]

\* the access method's next-batch routine: a batch while it has one, else
\* the cleared scan slot
accessMtd(scan, left, batch) ==
    IF left > 0 THEN batch ELSE tts_vector_clear(scan)

\* the answer of (*recheckMtd)
Recheck(ok) == IF ok THEN "accepted" ELSE "rejected"

\* a mutant: an empty test slot counts as no test slot
HasLiveTestSlot(epq) == epq.relsubs_slot.ref # "NULL" /\ ~TupIsNull(epq.relsubs_slot.slot)

\* epqstate->relsubs_slot[scanrelid - 1] != NULL
HasTestSlot(epq) == epq.relsubs_slot.ref # "NULL"

\* a mutant: the relation is not marked
MarkNothing(epq) == epq

\* epqstate->relsubs_done[scanrelid - 1] = true: no more rows for this
\* relation in this re-validation
MarkDone(epq) == [epq EXCEPT !.relsubs_done = TRUE]

\* ExecScanFetch.  batch is what the access method would deliver, ok what
\* the recheck method answers, stored the row the recheck method of a
\* pushed-down join or the rowmark fetch stores, found whether the rowmark
\* fetch finds a row
ExecScanFetch(cfg, epq, scan, left, batch, ok, stored, found) ==
    IF epq.active /\ cfg.scanrelid = 0
      THEN LET slot == IF ok THEN stored ELSE tts_vector_clear(scan)
           IN  Fetched(SlotPtr("scan", slot), slot, epq, 0, Recheck(ok))
    ELSE IF epq.active /\ epq.relsubs_done
      THEN LET slot == tts_vector_clear(scan)
           IN  Fetched(SlotPtr("scan", slot), slot, epq, 0, "none")
    ELSE IF epq.active /\ HasTestSlot(epq)
      THEN LET done == MarkDone(epq)
               slot == epq.relsubs_slot.slot
           IN  IF TupIsNull(slot) THEN Fetched(NullPtr, scan, done, 0, "none")
               ELSE IF ~ok
                 THEN LET cleared == SlotPtr("epq", tts_vector_clear(slot))
                      IN  Fetched(cleared, scan,
                                  [done EXCEPT !.relsubs_slot = cleared], 0,
                                  Recheck(ok))
               ELSE Fetched(epq.relsubs_slot, scan, done, 0, Recheck(ok))
    ELSE IF epq.active /\ epq.relsubs_rowmark
      THEN LET done == MarkDone(epq)
           IN  IF ~found THEN Fetched(NullPtr, scan, done, 0, "none")
               ELSE IF TupIsNull(stored) THEN Fetched(NullPtr, stored, done, 0, "none")
               ELSE IF ~ok
                 THEN Fetched(SlotPtr("scan", tts_vector_clear(stored)),
                              tts_vector_clear(stored), done, 0, Recheck(ok))
               ELSE Fetched(SlotPtr("scan", stored), stored, done, 0, Recheck(ok))
    ELSE LET slot == accessMtd(scan, left, batch)
         IN  Fetched(SlotPtr("scan", slot), slot, epq, 1, "none")

\* the scan predicate: a row passes when its value is 1
QualPasses(v) == v = 1

\* VExecScanQual: rows failing the predicate become skipped
VExecScanQual(slot) ==
    [slot EXCEPT !.skip = [i \in 1..BATCHSIZE |-> slot.skip[i] \/ ~QualPasses(slot.rows[i])]]

\* ExecProject: the projection result slot is cleared and filled with the
\* projected columns of the batch
ProjectVal(v) == IF v = 0 THEN 0 ELSE v + 10
ExecProject(proj, slot) ==
    [tts_vector_clear(proj) EXCEPT
        !.empty = FALSE,
        !.dim = slot.dim,
        !.rows = [i \in 1..BATCHSIZE |-> ProjectVal(slot.rows[i])]]

\* what VExecScan does with a fetch: return ret to the caller, or go on to
\* the next fetch
ScanStep(ret, done) == [ret |-> ret, done |-> done]

\* a mutant: the path for a node with neither qual nor projection goes on
\* fetching when the fetch came back empty
FetchUntilRow(f) == ScanStep(f.ptr, ~PtrIsNull(f.ptr))

\* a node with neither qual nor projection: return ExecScanFetch(...)
FetchOnly(f) == ScanStep(f.ptr, TRUE)

\* a mutant: the projected batch keeps the skip flags ExecProject left
KeepProjectedSkip(result, slot) == result

\* memcpy of the BATCHSIZE skip flags of the fetched batch
CopySkip(result, slot) == [result EXCEPT !.skip = slot.skip]

VARIABLES
    scancfg,         \* the scan plan node
    epqstate,        \* snapshot re-validation state of the scanned relation
    scanSlot,        \* ss_ScanTupleSlot
    projSlot,        \* projInfo->pi_state.resultslot
    amleft,          \* batches the access method has still to deliver
    scanpc,          \* where the current VExecScan call stands
    scanret,         \* what the last VExecScan call returned
    lastfetch,       \* the last ExecScanFetch of the call
    afterQual,       \* the fetched batch after predicate evaluation
    scancount        \* per call: fetches, access-method calls, predicate
                     \* evaluations; over all calls: InstrCountFiltered1
                     \* and the fetches made

scanVars == <<scancfg, epqstate, scanSlot, projSlot, amleft, scanpc, scanret,
              lastfetch, afterQual, scancount>>

NoFetch == Fetched(NullPtr, tts_vector_init(0), NoEPQ, 0, "none")
ZeroCount == [fetches |-> 0, am |-> 0, quals |-> 0, filtered |-> 0, total |-> 0]

ScanIdle ==
    /\ scancfg = [qual |-> FALSE, projInfo |-> FALSE, scanrelid |-> 1]
    /\ epqstate = NoEPQ
    /\ scanSlot = tts_vector_init(0)
    /\ projSlot = tts_vector_init(0)
    /\ amleft = 0
    /\ scanpc = "idle"
    /\ scanret = NullPtr
    /\ lastfetch = NoFetch
    /\ afterQual = tts_vector_init(0)
    /\ scancount = ZeroCount

(***************************************************************************)
(* State of Spec: the node, its result slot, the child's slot and the      *)
(* caller's view of the execution.                                         *)
(***************************************************************************)
VARIABLES
    aggcfg,          \* the plan node
    aggstate,        \* AggState
    resultSlot,      \* vas->resultSlot
    outerSlot,       \* the slot the child returns its batches in
    pc,              \* where the current VExecAgg call stands
    input,           \* the valid rows the child has delivered, in order
    nfetched,        \* row positions the child has delivered
    lastret,         \* what the last VExecAgg call returned
    placed,          \* result rows the last call wrote into the result slot
    delivered,       \* the rows the caller received: rows not marked
                     \* skipped of the batches returned, with their set
    eod,             \* the caller has been told end-of-data
    rescans          \* rescans of the node so far

aggVars == <<aggcfg, aggstate, resultSlot, outerSlot, pc, input, nfetched,
             lastret, placed, delivered, eod, rescans>>


(***************************************************************************)
(* The vector slot itself: VExecStoreTuple, Vslot_getallattrs, the clear   *)
(* method and the two places of the aggregation driver that fill a result  *)
(* slot.  The arrays tts_tuples[], tts_buffers[] and skip[] have BATCHSIZE *)
(* elements; position BATCHSIZE + 1 of the sequences below stands for the  *)
(* memory behind the arrays.                                               *)
(***************************************************************************)
VARIABLES
    vslot,           \* the VectorTupleSlot
    pins,            \* per buffer: pins taken by the slot and not released
    overrun,         \* a store has written behind tts_tuples[] or tts_buffers[]
    slotlast         \* the last slot operation, the buffer it was given and
                     \* what the slot held before it

slotVars == <<vslot, pins, overrun, slotlast>>

InvalidBuffer == 0
\* disk buffers a tuple can lie in
MaxBuffer == 2
Buffers == 1..MaxBuffer
BufferIsValid(b) == b # InvalidBuffer
\* heap tuples handed to VExecStoreTuple
Tuples == {1, 2}
Slots == 1..(BATCHSIZE + 1)

\* tts_vector_init with InitializeVectorSlotColumn
NewVectorSlot ==
    [empty |-> TRUE, shouldfree |-> FALSE, nvalid |-> 0, dim |-> 0, bufnum |-> 0,
     tts_buffers |-> [i \in Slots |-> InvalidBuffer],
     tts_tuples |-> [i \in Slots |-> 0],
     skip |-> AllSkipped,
     coldim |-> 0]
NoPins == [b \in Buffers |-> 0]

\* ReleaseBuffer / IncrBufferRefCount as far as the slot's own pins go.  A
\* release of a buffer the slot holds no pin on either fails or gives up a
\* pin some other holder took
Released(st, b, steal) ==
    IF st.error THEN st
    ELSE IF st.pins[b] > 0 \/ (steal /\ st.pins[b] > -1)
      THEN [st EXCEPT !.pins[b] = @ - 1]
    ELSE [st EXCEPT !.error = TRUE]
Pinned(st, b) == [st EXCEPT !.pins[b] = @ + 1]

\* what a write behind the end of an array does: it lands in memory nothing
\* else uses, or on the first recorded buffer
OverrunOutcomes == {[clobber |-> FALSE, garbage |-> InvalidBuffer]}
                   \cup {[clobber |-> TRUE, garbage |-> g] : g \in {InvalidBuffer} \cup Buffers}

\* a mutant: the pin is taken for every store
VExecStoreTuplePinsAlways(slot, p, tuple, buffer, shouldFree, o, steal) ==
    LET s1 == [slot EXCEPT !.empty = FALSE, !.shouldfree = shouldFree,
                           !.tts_tuples[slot.dim + 1] = tuple, !.nvalid = 0]
        st1 == [slot |-> s1, pins |-> p, error |-> FALSE]
        st3 == IF BufferIsValid(buffer) THEN Pinned(st1, buffer) ELSE st1
    IN  [st3 EXCEPT !.slot.dim = @ + 1]

\* VExecStoreTuple
VExecStoreTuple(slot, p, tuple, buffer, shouldFree, o, steal) ==
    LET outside == slot.dim >= BATCHSIZE
        s0 == IF outside /\ o.clobber
                THEN [slot EXCEPT !.tts_buffers[1] = o.garbage] ELSE slot
        s1 == [s0 EXCEPT !.empty = FALSE, !.shouldfree = shouldFree,
                         !.tts_tuples[slot.dim + 1] = tuple, !.nvalid = 0]
        st1 == [slot |-> s1, pins |-> p, error |-> FALSE]
        record == s1.bufnum = 0 \/ s1.tts_buffers[s1.bufnum] # buffer
        stale == s1.tts_buffers[s1.bufnum + 1]
        st2 == IF record /\ BufferIsValid(stale) THEN Released(st1, stale, steal) ELSE st1
        st3 == IF ~record THEN st2
               ELSE LET st == [st2 EXCEPT !.slot.tts_buffers[s1.bufnum + 1] = buffer,
                                          !.slot.bufnum = @ + 1]
                    IN  IF BufferIsValid(buffer) THEN Pinned(st, buffer) ELSE st
    IN  [st3 EXCEPT !.slot.dim = @ + 1]

\* the loop of tts_vector_clear over tts_buffers[0 .. bufnum - 1]
RECURSIVE ReleaseRecorded(_, _, _)
ReleaseRecorded(st, i, steal) ==
    IF i > st.slot.bufnum THEN st
    ELSE IF BufferIsValid(st.slot.tts_buffers[i])
      THEN ReleaseRecorded([Released(st, st.slot.tts_buffers[i], steal)
                               EXCEPT !.slot.tts_buffers[i] = InvalidBuffer],
                           i + 1, steal)
    ELSE ReleaseRecorded(st, i + 1, steal)

\* a mutant: the clear forgets the recorded buffers without releasing them
VExecClearTupleNoRelease(slot, p, steal) ==
    IF slot.empty THEN [slot |-> slot, pins |-> p, error |-> FALSE]
    ELSE [slot |-> [slot EXCEPT !.shouldfree = FALSE, !.empty = TRUE, !.nvalid = 0,
                                !.dim = 0, !.bufnum = 0, !.coldim = 0,
                                !.skip = AllSkipped],
          pins |-> p, error |-> FALSE]

\* VExecClearTuple: slot->tts_ops->clear, which is tts_vector_clear
VExecClearTuple(slot, p, steal) ==
    IF slot.empty THEN [slot |-> slot, pins |-> p, error |-> FALSE]
    ELSE LET s1 == [slot EXCEPT !.shouldfree = FALSE, !.empty = TRUE, !.nvalid = 0]
             st == ReleaseRecorded([slot |-> s1, pins |-> p, error |-> FALSE], 1, steal)
         IN  [st EXCEPT !.slot.dim = 0, !.slot.bufnum = 0, !.slot.coldim = 0,
                        !.slot.skip = AllSkipped]

\* Vslot_getallattrs with Vslot_deform_tuple: the columns take the rows of
\* the tuples stored
Vslot_getallattrs(slot) ==
    IF slot.nvalid = 1 \/ slot.dim = 0 THEN slot
    ELSE [slot EXCEPT !.coldim = slot.dim, !.nvalid = 1]

SlotOp(op, buffer) ==
    [op |-> op, buffer |-> buffer, empty |-> vslot.empty, dim |-> vslot.dim,
     bufnum |-> vslot.bufnum]
\* the outcomes to follow: a write behind an array has outcomes only when
\* there is one, a release finds a foreign pin only after such a write
Overruns(slot) ==
    IF slot.dim >= BATCHSIZE THEN OverrunOutcomes
    ELSE {[clobber |-> FALSE, garbage |-> InvalidBuffer]}
Steals == IF overrun THEN BOOLEAN ELSE {FALSE}

\* a caller stores one more tuple; an execution is followed through one
\* store into a full slot
SlotStore ==
    /\ slotlast.op # "error"
    /\ vslot.dim <= BATCHSIZE
    /\ vslot.dim = BATCHSIZE => ~overrun
    /\ \E tuple \in Tuples, buffer \in {InvalidBuffer} \cup Buffers,
          o \in Overruns(vslot), steal \in Steals :
          LET r == VExecStoreTuple(vslot, pins, tuple, buffer, ~BufferIsValid(buffer), o, steal)
          IN  /\ vslot' = r.slot
              /\ pins' = r.pins
              /\ overrun' = (overrun \/ vslot.dim >= BATCHSIZE)
              /\ slotlast' = SlotOp(IF r.error THEN "error" ELSE "store", buffer)

\* a caller clears the slot
SlotClear ==
    /\ slotlast.op # "error"
    /\ \E steal \in Steals :
          LET r == VExecClearTuple(vslot, pins, steal)
          IN  /\ vslot' = r.slot
              /\ pins' = r.pins
              /\ slotlast' = SlotOp(IF r.error THEN "error" ELSE "clear", InvalidBuffer)
    /\ UNCHANGED overrun

\* the scan deforms the tuples stored
SlotDeform ==
    /\ slotlast.op # "error"
    /\ vslot' = Vslot_getallattrs(vslot)
    /\ slotlast' = SlotOp("deform", InvalidBuffer)
    /\ UNCHANGED <<pins, overrun>>

\* agg_retrieve_direct returns a group: the slot is cleared, the result
\* written into row 0 of the columns, skip[0] cleared and the slot marked
\* not empty
SlotDirectFill ==
    /\ slotlast.op # "error"
    /\ \E steal \in Steals :
          LET r == VExecClearTuple(vslot, pins, steal)
          IN  /\ vslot' = IF r.error THEN r.slot
                          ELSE [r.slot EXCEPT !.skip[1] = FALSE, !.empty = FALSE]
              /\ pins' = r.pins
              /\ slotlast' = SlotOp(IF r.error THEN "error" ELSE "direct_fill", InvalidBuffer)
    /\ UNCHANGED overrun

\* agg_retrieve_hash_table: the slot is cleared and the rows of the entries
\* are written into the columns; nothing else of the slot is touched
SlotHashFill ==
    /\ slotlast.op # "error"
    /\ \E steal \in Steals :
          LET r == VExecClearTuple(vslot, pins, steal)
          IN  /\ vslot' = r.slot
              /\ pins' = r.pins
              /\ slotlast' = SlotOp(IF r.error THEN "error" ELSE "hash_fill", InvalidBuffer)
    /\ UNCHANGED overrun

SlotIdle ==
    /\ vslot = NewVectorSlot
    /\ pins = NoPins
    /\ overrun = FALSE
    /\ slotlast = [op |-> "none", buffer |-> InvalidBuffer, empty |-> TRUE, dim |-> 0,
                   bufnum |-> 0]

vars == <<transVars, aggVars, scanVars, slotVars>>

AggIdle ==
    /\ aggcfg = CfgPlain
    /\ aggstate = VExecInitAgg(CfgPlain)
    /\ resultSlot = tts_vector_init(ZeroOut)
    /\ outerSlot = tts_vector_init(JunkRow)
    /\ pc = "idle"
    /\ input = <<>>
    /\ nfetched = 0
    /\ lastret = "none"
    /\ placed = 0
    /\ delivered = <<>>
    /\ eod = FALSE
    /\ rescans = 0

TransIdle ==
    /\ aggdefs = <<>>
    /\ aggs = <<>>
    /\ initstatus = "ok"
    /\ sharing = NoSharing
    /\ aggsplit = AGGSPLIT_SIMPLE
    /\ pertrans = CountStar
    /\ peraggs = <<NoFinal, StrictFinal>>
    /\ pergroupstate = ZeroPerGroup
    /\ sortstate = NoSort
    /\ ncalls = 0
    /\ log = <<>>
    /\ last = LastOp("none", <<>>, ZeroPerGroup, 0, <<>>)
    /\ aggvalues = NoResults
    /\ prevFinal = NoResults
    /\ nfinal = 0

TransInit == TransStart /\ AggIdle /\ ScanIdle /\ SlotIdle

TransNext ==
    \/ InitializeAggregate /\ UNCHANGED <<aggVars, scanVars, slotVars>>
    \/ AdvanceInput /\ UNCHANGED <<aggVars, scanVars, slotVars>>
    \/ SortInput /\ UNCHANGED <<aggVars, scanVars, slotVars>>
    \/ FinalizeAggregates /\ UNCHANGED <<aggVars, scanVars, slotVars>>

SpecTrans == TransInit /\ [][TransNext]_vars

\* VExecInitAgg over the aggregates of the node: it raises an error and
\* returns nothing, or leaves the descriptors built
InitAggs ==
    /\ initstatus = "start"
    /\ LET r == InitAggregates(aggsplit, aggdefs)
       IN  /\ initstatus' = IF r.error = NoError THEN "ok" ELSE r.error
           /\ aggs' = r.aggs
           /\ pertrans' = r.pertrans
           /\ peraggs' = r.peraggs
           /\ sharing' = r.sharing
    /\ UNCHANGED <<aggdefs, aggsplit, pergroupstate, sortstate, ncalls, log, last,
                   aggvalues, prevFinal, nfinal>>

\* a node before VExecInitAgg
InitStart ==
    /\ \/ aggdefs \in NodeAggs /\ aggsplit \in AggSplits
       \/ aggdefs \in ShareAggs /\ aggsplit \in {AGGSPLIT_SIMPLE, AGGSPLIT_INITIAL_SERIAL}
    /\ aggs = aggdefs
    /\ initstatus = "start"
    /\ sharing = NoSharing
    /\ pertrans = ZeroPerTrans
    /\ peraggs = <<>>
    /\ pergroupstate = ZeroPerGroup
    /\ sortstate = NoSort
    /\ ncalls = 0
    /\ log = <<>>
    /\ last = LastOp("none", <<>>, ZeroPerGroup, 0, <<>>)
    /\ aggvalues = NoResults
    /\ prevFinal = NoResults
    /\ nfinal = 0

InitInit == InitStart /\ AggIdle /\ ScanIdle /\ SlotIdle

\* initialization, then the first rows of the first transition state
InitNext ==
    \/ InitAggs /\ UNCHANGED <<aggVars, scanVars, slotVars>>
    \/ initstatus = "ok" /\ InitializeAggregate /\ UNCHANGED <<aggVars, scanVars, slotVars>>
    \/ initstatus = "ok" /\ Len(log) < MaxInitRows /\ AdvanceInput
          /\ UNCHANGED <<aggVars, scanVars, slotVars>>

SpecInit == InitInit /\ [][InitNext]_vars

\* the rows the child of a node can produce
RowChoices(c) ==
    IF c = CfgRollup THEN {InRow(a, b, 5) : a \in AVals, b \in BVals}
    ELSE IF c \in NodeCfgs \cup SortedCfgs THEN {InRow(1, 1, 5), InRow(1, 2, 5), InRow(2, 1, 5)}
    ELSE IF c = CfgPlain THEN {InRow(1, 1, x) : x \in XVals}
    ELSE {InRow(a, 1, x) : a \in AVals, x \in XVals}

\* row positions the child of a node delivers over one scan
RowLimit(c) == IF c \in NodeCfgs \cup SortedCfgs THEN MaxNodeRows ELSE MaxRows

\* sorted on the grouping columns of the first sorted phase
SortedRows(c, rows) ==
    LET keys == PhaseView(c, 1).keys
        n == PhaseView(c, 1).numCols
        RECURSIVE Before(_, _, _)
        Before(r1, r2, j) ==
            IF j > n THEN TRUE
            ELSE \/ r1[keys[j]] < r2[keys[j]]
                 \/ r1[keys[j]] = r2[keys[j]] /\ Before(r1, r2, j + 1)
    IN  \A i, j \in DOMAIN rows : i < j => Before(rows[i], rows[j], 1)

RECURSIVE ValidRows(_, _)
ValidRows(slot, i) ==
    IF i > BATCHSIZE THEN <<>>
    ELSE (IF i <= slot.dim /\ ~slot.skip[i] THEN <<slot.rows[i]>> ELSE <<>>)
         \o ValidRows(slot, i + 1)

\* the batches the child can return next: dim rows of which some may be
\* filtered out, rows past dim skipped; below a sorted node the valid rows
\* arrive in sort order
ChildBatches(c, sofar, n) ==
    LET Min(x, y) == IF x < y THEN x ELSE y
        all == {VSlot(FALSE, dim,
                      [i \in 1..BATCHSIZE |-> i > dim \/ f[i] = JunkRow],
                      [i \in 1..BATCHSIZE |-> IF i <= dim THEN f[i] ELSE JunkRow]) :
                  <<dim, f>> \in UNION {{<<d, g>> : g \in [1..d -> RowChoices(c) \cup {JunkRow}]} :
                                          d \in 1..Min(BATCHSIZE, RowLimit(c) - n)}}
    IN  IF c.aggstrategy \in {"AGG_SORTED", "AGG_MIXED"}
          THEN {b \in all : SortedRows(c, sofar \o ValidRows(b, 1))}
          ELSE all

\* what VExecAgg hands to its caller: the slot if it is not empty, else NULL
Returned(r) == IF r.ret = "slot" /\ ~TupIsNull(r.vs) THEN "slot" ELSE "null"

RECURSIVE MarkedRows(_, _, _)
MarkedRows(slot, set, i) ==
    IF i > BATCHSIZE THEN <<>>
    ELSE (IF ~slot.skip[i] THEN <<[set |-> set, row |-> slot.rows[i]]>> ELSE <<>>)
         \o MarkedRows(slot, set, i + 1)

\* the effect of a call segment r on the node and on the caller
Continue(r) ==
    /\ aggstate' = [r.st EXCEPT !.ub = "fault", !.iterorder = <<>>]
    /\ resultSlot' = r.vs
    /\ pc' = r.pc
    /\ IF r.pc = "idle"
         THEN /\ lastret' = Returned(r)
              /\ placed' = r.placed
              /\ delivered' = IF Returned(r) = "slot"
                                THEN delivered \o MarkedRows(r.vs, r.st.current_set, 1)
                                ELSE delivered
              /\ eod' = (eod \/ Returned(r) = "null")
         ELSE IF r.pc = "crashed"
           THEN /\ lastret' = "fault"
                /\ UNCHANGED <<placed, delivered, eod>>
         ELSE UNCHANGED <<lastret, placed, delivered, eod>>

\* the child returns a batch or end-of-data into its slot
ChildReturns(slot) ==
    /\ outerSlot' = slot
    /\ input' = input \o ValidRows(slot, 1)
    /\ nfetched' = nfetched + slot.dim

ChildResults ==
    ChildBatches(aggcfg, input, nfetched) \cup {tts_vector_clear(outerSlot)}

\* what is not fixed by the code in a call segment: the outcome of a read
\* through a NULL result and the order a reset hash iterator yields the
\* entries in
Oracles ==
    {<<u, order>> :
        u \in (IF aggcfg.qual THEN UBOutcomes ELSE {"fault"}),
        order \in IterOrders(aggstate.perhash)}
WithOracle(st, o) == [st EXCEPT !.ub = o[1], !.iterorder = o[2]]

\* the node as its current phase sees it
CurrentView == PhaseView(aggcfg, aggstate.current_phase)

\* what fetch_input_tuple can return: the next item of the input sort if
\* there is one, in the order the sort puts the stored batches in, else
\* what the child returns
Remove(items, i) == SubSeq(items, 1, i - 1) \o SubSeq(items, i + 1, Len(items))
Fetch(slot, rest, child) == [slot |-> slot, rest |-> rest, child |-> child]
FetchResults ==
    IF aggstate.sort_in.open
      THEN IF aggstate.sort_in.items = <<>>
             THEN {Fetch(tts_vector_clear(outerSlot), <<>>, FALSE)}
             ELSE {Fetch(aggstate.sort_in.items[i], Remove(aggstate.sort_in.items, i), FALSE) :
                     i \in DOMAIN aggstate.sort_in.items}
      ELSE {Fetch(slot, <<>>, TRUE) : slot \in ChildResults}

\* a mutant: the batch fetched is not copied to the next phase's sort
fetch_input_tuple_unrouted(st, f) ==
    [st EXCEPT !.sort_in.items = IF f.child THEN @ ELSE f.rest]

\* fetch_input_tuple: the effect on the two sorts
fetch_input_tuple(st, f) ==
    [st EXCEPT !.sort_in.items = IF f.child THEN @ ELSE f.rest,
               !.sort_out.items = IF ~TupIsNull(f.slot) /\ st.sort_out.open
                                    THEN Append(@, f.slot) ELSE @]

\* the slot fetch_input_tuple returned and what the child has delivered
Fetches(f) ==
    IF f.child THEN ChildReturns(f.slot)
    ELSE /\ outerSlot' = f.slot
         /\ UNCHANGED <<input, nfetched>>

\* the caller asks the node for its next batch
VExecAgg ==
    /\ pc = "idle"
    /\ \E o \in Oracles :
          Continue(VExecAggEntry(CurrentView, WithOracle(aggstate, o), resultSlot,
                                 outerSlot))
    /\ UNCHANGED <<aggcfg, outerSlot, input, nfetched, rescans>>

\* fetch_input_tuple for the first batch of a group returns
FetchFirst ==
    /\ pc = "first_fetch"
    /\ \E f \in FetchResults, o \in Oracles :
          /\ Fetches(f)
          /\ Continue(AfterFirstFetch(CurrentView,
                                       WithOracle(fetch_input_tuple(aggstate, f), o),
                                       resultSlot, f.slot))
    /\ UNCHANGED <<aggcfg, rescans>>

\* fetch_input_tuple inside the group loop returns
FetchLoop ==
    /\ pc = "loop_fetch"
    /\ \E f \in FetchResults, o \in Oracles :
          /\ Fetches(f)
          /\ Continue(AfterLoopFetch(CurrentView,
                                      WithOracle(fetch_input_tuple(aggstate, f), o),
                                      resultSlot, f.slot))
    /\ UNCHANGED <<aggcfg, rescans>>

\* fetch_input_tuple in agg_fill_hash_table returns
FetchFill ==
    /\ pc = "fill_fetch"
    /\ \E slot \in ChildResults, o \in Oracles :
          /\ ChildReturns(slot)
          /\ Continue(AfterFillFetch(CurrentView, WithOracle(aggstate, o),
                                      resultSlot, slot))
    /\ UNCHANGED <<aggcfg, rescans>>

\* a mutant: the rescan leaves the aggregates' sorts as they are
KeepSorts(sortstates) == sortstates

\* ExecReScanAgg: tuplesort_end for every open pertrans->sortstates[setno]
CloseSorts(sortstates) == [setno \in DOMAIN sortstates |-> FALSE]

\* ExecReScanAgg.  keep tells whether neither the child's parameters nor the
\* parameters of the aggregates' inputs have changed
ExecReScanAgg(c, st, keep) ==
    LET st0 == [st EXCEPT !.agg_done = FALSE]
        hashing == c.aggstrategy \in {"AGG_HASHED", "AGG_MIXED"}
        st1 == [st0 EXCEPT
                   !.sortstates = CloseSorts(@),
                   !.nended = [setno \in DOMAIN @ |->
                                 IF st.sortstates[setno] THEN @[setno] + 1 ELSE @[setno]],
                   !.grp_firstTuple = FALSE,
                   !.scanEmpty = TRUE,
                   !.perhash = [setno \in DOMAIN @ |-> EmptyTable],
                   !.table_filled = IF hashing THEN FALSE ELSE @]
    IN  IF c.aggstrategy = "AGG_HASHED" /\ ~st.table_filled THEN st0
        ELSE IF c.aggstrategy = "AGG_HASHED" /\ keep
          THEN [st0 EXCEPT !.hashiter = st.iterorder[1], !.current_set = 0]
        ELSE IF c.aggstrategy # "AGG_HASHED"
          THEN [initialize_phase(c,
                    [st1 EXCEPT !.pergroups = [setno \in DOMAIN @ |-> ZeroGroup]], 1)
                  EXCEPT !.input_done = FALSE, !.projected_set = -1]
        ELSE st1

\* the HASHED shortcut of ExecReScanAgg: the table is kept and read again
KeepsTable(c, st, keep) == c.aggstrategy = "AGG_HASHED" /\ st.table_filled /\ keep

\* the caller rescans the node
ReScan ==
    /\ pc = "idle"
    /\ rescans < MaxRescans
    /\ \E keep \in BOOLEAN :
         \E order \in IterOrders(aggstate.perhash) :
          /\ aggstate' = [ExecReScanAgg(aggcfg, [aggstate EXCEPT !.iterorder = order], keep)
                             EXCEPT !.iterorder = <<>>]
          /\ IF KeepsTable(aggcfg, aggstate, keep)
               THEN UNCHANGED <<input, nfetched, outerSlot>>
               ELSE /\ input' = <<>>
                    /\ nfetched' = 0
                    /\ outerSlot' = tts_vector_clear(outerSlot)
    /\ rescans' = rescans + 1
    /\ lastret' = IF \E keep \in BOOLEAN : KeepsTable(aggcfg, aggstate, keep)
                     /\ aggstate'.table_filled
                    THEN "rescan_kept" ELSE "rescan"
    /\ placed' = 0
    /\ delivered' = <<>>
    /\ eod' = FALSE
    /\ UNCHANGED <<aggcfg, resultSlot, pc>>

\* VExecEndAgg: the phase sorts and every tuplesort an aggregate still has
\* are ended; no handle is cleared
VExecEndAgg ==
    /\ pc = "idle"
    /\ lastret # "none"
    /\ aggstate' = [aggstate EXCEPT
                       !.sort_in.open = FALSE,
                       !.sort_out.open = FALSE,
                       !.nended = [setno \in DOMAIN @ |->
                                     IF aggstate.sortstates[setno]
                                       THEN @[setno] + 1 ELSE @[setno]]]
    /\ pc' = "ended"
    /\ UNCHANGED <<aggcfg, resultSlot, outerSlot, input, nfetched, lastret, placed,
                   delivered, eod, rescans>>

Init ==
    /\ TransIdle
    /\ ScanIdle
    /\ SlotIdle
    /\ aggcfg \in AggCfgs
    /\ aggstate = VExecInitAgg(aggcfg)
    /\ \E flags \in ColumnNullInits :
          resultSlot = [tts_vector_init(ZeroOut) EXCEPT !.isnull = flags]
    /\ outerSlot = tts_vector_init(JunkRow)
    /\ pc = "idle"
    /\ input = <<>>
    /\ nfetched = 0
    /\ lastret = "none"
    /\ placed = 0
    /\ delivered = <<>>
    /\ eod = FALSE
    /\ rescans = 0

Next ==
    \/ VExecAgg /\ UNCHANGED <<transVars, scanVars, slotVars>>
    \/ FetchFirst /\ UNCHANGED <<transVars, scanVars, slotVars>>
    \/ FetchLoop /\ UNCHANGED <<transVars, scanVars, slotVars>>
    \/ FetchFill /\ UNCHANGED <<transVars, scanVars, slotVars>>

Spec == Init /\ [][Next]_vars

(***************************************************************************)
(* SpecNode: nodes with chained phases, a HAVING clause or a sorting        *)
(* aggregate, which their caller may rescan.                               *)
(***************************************************************************)
NodeInit ==
    /\ TransIdle
    /\ ScanIdle
    /\ SlotIdle
    /\ aggcfg \in NodeCfgs
    /\ aggstate = VExecInitAgg(aggcfg)
    /\ resultSlot = tts_vector_init(ZeroOut)
    /\ outerSlot = tts_vector_init(JunkRow)
    /\ pc = "idle"
    /\ input = <<>>
    /\ nfetched = 0
    /\ lastret = "none"
    /\ placed = 0
    /\ delivered = <<>>
    /\ eod = FALSE
    /\ rescans = 0

NodeNext ==
    \/ VExecAgg /\ UNCHANGED <<transVars, scanVars, slotVars>>
    \/ FetchFirst /\ UNCHANGED <<transVars, scanVars, slotVars>>
    \/ FetchLoop /\ UNCHANGED <<transVars, scanVars, slotVars>>
    \/ FetchFill /\ UNCHANGED <<transVars, scanVars, slotVars>>
    \/ ReScan /\ UNCHANGED <<transVars, scanVars, slotVars>>
    \/ VExecEndAgg /\ UNCHANGED <<transVars, scanVars, slotVars>>

SpecNode == NodeInit /\ [][NodeNext]_vars

(***************************************************************************)
(* SpecSorted: sorted nodes under the calls of the driver.                 *)
(***************************************************************************)
SortedInit ==
    /\ TransIdle
    /\ ScanIdle
    /\ SlotIdle
    /\ aggcfg \in SortedCfgs
    /\ aggstate = VExecInitAgg(aggcfg)
    /\ resultSlot = tts_vector_init(ZeroOut)
    /\ outerSlot = tts_vector_init(JunkRow)
    /\ pc = "idle"
    /\ input = <<>>
    /\ nfetched = 0
    /\ lastret = "none"
    /\ placed = 0
    /\ delivered = <<>>
    /\ eod = FALSE
    /\ rescans = 0

SortedNext ==
    \/ VExecAgg /\ UNCHANGED <<transVars, scanVars, slotVars>>
    \/ FetchFirst /\ UNCHANGED <<transVars, scanVars, slotVars>>
    \/ FetchLoop /\ UNCHANGED <<transVars, scanVars, slotVars>>

SpecSorted == SortedInit /\ [][SortedNext]_vars

(***************************************************************************)
(* SpecLive: every node configuration under a caller that goes on calling  *)
(* VExecAgg and a child that answers every fetch.  The child has at most   *)
(* RowLimit row positions to deliver and returns end-of-data after them.   *)
(***************************************************************************)
LiveCfgs == AggCfgs \cup NodeCfgs \cup SortedCfgs

LiveInit ==
    /\ TransIdle
    /\ ScanIdle
    /\ SlotIdle
    /\ aggcfg \in LiveCfgs
    /\ aggstate = VExecInitAgg(aggcfg)
    /\ resultSlot = tts_vector_init(ZeroOut)
    /\ outerSlot = tts_vector_init(JunkRow)
    /\ pc = "idle"
    /\ input = <<>>
    /\ nfetched = 0
    /\ lastret = "none"
    /\ placed = 0
    /\ delivered = <<>>
    /\ eod = FALSE
    /\ rescans = 0

LiveNext ==
    \/ VExecAgg /\ UNCHANGED <<transVars, scanVars, slotVars>>
    \/ FetchFirst /\ UNCHANGED <<transVars, scanVars, slotVars>>
    \/ FetchLoop /\ UNCHANGED <<transVars, scanVars, slotVars>>
    \/ FetchFill /\ UNCHANGED <<transVars, scanVars, slotVars>>

\* the caller's next call and the child's answer to a fetch are not put off
\* for ever
SpecLive == LiveInit /\ [][LiveNext]_vars /\ WF_vars(LiveNext)

(***************************************************************************)
(* SpecScan: calls of VExecScan against an access method.                  *)
(***************************************************************************)
\* VExecScan returns ptr to its caller
ScanReturn(ptr) ==
    /\ scanret' = ptr
    /\ scanpc' = "idle"

\* the slot a fetched pointer refers to takes the content slot
WriteBack(f, slot) ==
    /\ scanSlot' = IF f.ptr.ref = "scan" THEN slot ELSE f.scan
    /\ epqstate' = IF f.ptr.ref = "epq"
                     THEN [f.epq EXCEPT !.relsubs_slot = SlotPtr("epq", slot)]
                     ELSE f.epq

\* VExecScan is called: per-call state is reset and the first fetch is due
VExecScan ==
    /\ scanpc = "idle"
    /\ scanpc' = "fetch"
    /\ scancount' = [scancount EXCEPT !.fetches = 0, !.am = 0, !.quals = 0]
    /\ UNCHANGED <<scancfg, epqstate, scanSlot, projSlot, amleft, scanret,
                   lastfetch, afterQual>>

\* what ExecScanFetch can return in the current state, over what the access
\* method, the recheck method and the rowmark fetch can do
FetchOutcomes ==
    {ExecScanFetch(scancfg, epqstate, scanSlot, amleft, batch, ok, stored, found) :
        batch \in AMBatches, ok \in BOOLEAN, found \in BOOLEAN,
        stored \in TestSlots \cup {tts_vector_init(0)}}

\* one ExecScanFetch of the call and what VExecScan does with its result:
\* return it, return the projection, or loop for the next batch
ScanFetch ==
    /\ scanpc = "fetch"
    /\ scancount.total < MaxScanFetches
    /\ \E f \in FetchOutcomes :
         LET q == IF scancfg.qual /\ ~PtrIsNull(f.ptr)
                    THEN VExecScanQual(f.ptr.slot) ELSE f.ptr.slot
             evaluated == scancfg.qual /\ ~PtrIsNull(f.ptr)
         IN  /\ lastfetch' = f
             /\ afterQual' = q
             /\ amleft' = IF f.am = 1 /\ amleft > 0 THEN amleft - 1 ELSE amleft
             /\ \E pass \in (IF AnyRowLeft(q) THEN {TRUE} ELSE BOOLEAN) :
                  /\ scancount' =
                        [fetches |-> scancount.fetches + 1,
                         am |-> scancount.am + f.am,
                         quals |-> scancount.quals + (IF evaluated THEN 1 ELSE 0),
                         filtered |-> scancount.filtered
                                        + (IF evaluated /\ ~pass THEN 1 ELSE 0),
                         total |-> scancount.total + 1]
                  /\ IF ~scancfg.qual /\ ~scancfg.projInfo
                       THEN /\ IF FetchOnly(f).done
                                 THEN ScanReturn(FetchOnly(f).ret)
                                 ELSE UNCHANGED <<scanret, scanpc>>
                            /\ WriteBack(f, f.ptr.slot)
                            /\ UNCHANGED projSlot
                     ELSE IF PtrIsNull(f.ptr)
                       THEN /\ WriteBack(f, f.ptr.slot)
                            /\ IF scancfg.projInfo
                                 THEN /\ projSlot' = tts_vector_clear(projSlot)
                                      /\ ScanReturn(SlotPtr("proj", tts_vector_clear(projSlot)))
                                 ELSE /\ ScanReturn(f.ptr)
                                      /\ UNCHANGED projSlot
                     ELSE IF ~scancfg.qual \/ pass
                       THEN /\ WriteBack(f, q)
                            /\ IF scancfg.projInfo
                                 THEN LET resultSlot1 == CopySkip(ExecProject(projSlot, q), q)
                                      IN  /\ projSlot' = resultSlot1
                                          /\ ScanReturn(SlotPtr("proj", resultSlot1))
                                 ELSE /\ ScanReturn(SlotPtr(f.ptr.ref, q))
                                      /\ UNCHANGED projSlot
                     ELSE /\ WriteBack(f, q)
                          /\ UNCHANGED <<projSlot, scanret, scanpc>>
    /\ UNCHANGED scancfg

ScanInit ==
    /\ TransIdle
    /\ AggIdle
    /\ SlotIdle
    /\ scancfg \in ScanCfgs
    /\ epqstate \in EPQStates
    /\ scanSlot = tts_vector_init(0)
    /\ projSlot = tts_vector_init(0)
    /\ amleft \in 0..MaxScanBatches
    /\ scanpc = "idle"
    /\ scanret = NullPtr
    /\ lastfetch = NoFetch
    /\ afterQual = tts_vector_init(0)
    /\ scancount = ZeroCount

ScanNext ==
    \/ VExecScan /\ UNCHANGED <<transVars, aggVars, slotVars>>
    \/ ScanFetch /\ UNCHANGED <<transVars, aggVars, slotVars>>

SpecScan == ScanInit /\ [][ScanNext]_vars

\* a vector slot under the operations of its users
SlotInit == TransIdle /\ AggIdle /\ ScanIdle /\ SlotIdle

SlotNext ==
    \/ SlotStore /\ UNCHANGED <<transVars, aggVars, scanVars>>
    \/ SlotClear /\ UNCHANGED <<transVars, aggVars, scanVars>>
    \/ SlotDeform /\ UNCHANGED <<transVars, aggVars, scanVars>>
    \/ SlotDirectFill /\ UNCHANGED <<transVars, aggVars, scanVars>>
    \/ SlotHashFill /\ UNCHANGED <<transVars, aggVars, scanVars>>

SpecSlot == SlotInit /\ [][SlotNext]_vars

(***************************************************************************)
(* Properties of the transition-state manager (checked under SpecTrans).   *)
(***************************************************************************)
AllNonNull(args) == \A i \in 1..Len(args) : ~args[i].isnull
StrictNoInit == pertrans.fn_strict /\ pertrans.initValueIsNull
EarlierInputs == SubSeq(log, 1, Len(log) - 1)
SeenNonNull(inputs) == \E i \in 1..Len(inputs) : AllNonNull(inputs[i])

\* C7: a strict transition function given a row with any null input leaves
\* transValue, transValueIsNull and noTransValue as they were and is not
\* invoked.
C7_StrictnessLaw ==
    (last.op = "advance" /\ pertrans.fn_strict /\ ~AllNonNull(last.args))
        => /\ pergroupstate = last.pre
           /\ ncalls = last.preCalls

C7_Witness ==
    /\ last.op = "advance"
    /\ pertrans = SumTwo
    /\ ~last.args[1].isnull /\ last.args[2].isnull
    /\ last.pre.transValue > 0
    /\ pergroupstate = last.pre

\* C8 as amended: for a strict transition function without initial value the
\* first all-non-null input is copied into the accumulator without a call
\* and clears both flags; a later all-non-null input is a normal call as
\* long as the accumulator is not null, and leaves a null accumulator alone.
\* Inputs [NULL, NULL, 5, 3] seed the state from 5 and make one call for 3.
C8_AdoptionLaw ==
    /\ (last.op = "advance" /\ StrictNoInit /\ AllNonNull(last.args))
          => /\ last.pre.noTransValue <=> ~SeenNonNull(EarlierInputs)
             /\ last.pre.noTransValue
                  => /\ pergroupstate = PerGroup(last.args[1].value, FALSE, FALSE)
                     /\ ncalls = last.preCalls
             /\ (~last.pre.noTransValue /\ ~last.pre.transValueIsNull)
                  => /\ ncalls = last.preCalls + 1
                     /\ ~pergroupstate.noTransValue
             /\ (~last.pre.noTransValue /\ last.pre.transValueIsNull)
                  => /\ ncalls = last.preCalls
                     /\ pergroupstate = last.pre
    /\ (pertrans = SumAdopt
        /\ log = <<<<NullDatum>>, <<NullDatum>>, <<Datum(5)>>, <<Datum(3)>>>>)
          => /\ pergroupstate = PerGroup(8, FALSE, FALSE)
             /\ ncalls = 1

C8_Witness ==
    /\ pertrans = SumAdopt
    /\ last.op = "advance"
    /\ log = <<<<NullDatum>>, <<NullDatum>>, <<Datum(5)>>, <<Datum(3)>>>>
    /\ ncalls = 1

\* C8 as written: every all-non-null input after the adopted one is a
\* transition-function call.
C8_EveryLaterInputIsACall ==
    (last.op = "advance" /\ StrictNoInit /\ AllNonNull(last.args)
     /\ SeenNonNull(EarlierInputs))
        => ncalls = last.preCalls + 1

\* the distinct values of a sort in ascending order, the null last
RECURSIVE DistinctFrom(_, _)
DistinctFrom(items, k) ==
    IF k > MaxVal THEN (IF items[0] > 0 THEN <<NullDatum>> ELSE <<>>)
    ELSE (IF items[k] > 0 THEN <<Datum(k)>> ELSE <<>>) \o DistinctFrom(items, k + 1)

ExampleSort == [v \in 0..MaxVal |-> CASE v = 1 -> 2 [] v = 2 -> 3 [] v = 3 -> 1 [] OTHER -> 0]

\* C9: a DISTINCT single-input aggregate takes one transition step per
\* distinct sorted value, in ascending order, nulls counting as one value;
\* the values 1,1,2,2,2,3 make exactly 3 invocations.
C9_DistinctCollapse ==
    (last.op = "finalize" /\ pertrans.numDistinctCols > 0)
        => /\ last.steps = DistinctFrom(sortstate.items, 1)
           /\ (pertrans = CountDistinct /\ sortstate.items = ExampleSort)
                 => /\ ncalls = 3
                    /\ last.pre = PerGroup(3, FALSE, FALSE)

C9_Witness ==
    /\ last.op = "finalize"
    /\ pertrans = CountDistinct
    /\ sortstate.items = ExampleSort
    /\ Len(last.steps) = 3

Accumulator == [value |-> last.pre.transValue, isnull |-> last.pre.transValueIsNull]
\* the declared argument positions of a final function
DeclaredArgs(peragg) ==
    [i \in 1..peragg.numFinalArgs |->
        IF i = 1 THEN Accumulator
        ELSE IF i - 1 <= Len(peragg.aggdirectargs) THEN peragg.aggdirectargs[i - 1]
        ELSE NullDatum]

\* C19: a final function is called with the accumulator, then the direct
\* arguments, then nulls in every remaining declared position; a strict one
\* with a null among these is not called and the result is null; without a
\* final function the result is the accumulator with its null flag.
C19_FinalFunctionInputs ==
    (last.op = "finalize" /\ ~DO_AGGSPLIT_SKIPFINAL(aggsplit))
        => \A aggno \in 1..Len(peraggs) :
             LET peragg == peraggs[aggno]
                 fc == DeclaredArgs(peragg)
                 call == aggvalues.fcalls[aggno]
                 res == aggvalues.vals[aggno]
             IN  IF peragg.finalfn_oid = InvalidOid
                   THEN res = Accumulator /\ call.fn = InvalidOid
                 ELSE IF peragg.fn_strict /\ \E i \in DOMAIN fc : fc[i].isnull
                   THEN res = NullDatum /\ call.fn = InvalidOid
                 ELSE /\ call.fn = peragg.finalfn_oid
                      /\ call.fcargs = fc
                      /\ res = FinalFn(peragg.finalfn_oid, fc)

C19_Witness ==
    /\ last.op = "finalize"
    /\ aggsplit = AGGSPLIT_SIMPLE
    /\ peraggs = <<DirectArgFinal, StrictPadded>>
    /\ ~last.pre.transValueIsNull
    /\ aggvalues.fcalls[1].fcargs = <<Accumulator, Datum(3), NullDatum>>
    /\ aggvalues.fcalls[2].fn = InvalidOid
    /\ aggvalues.vals[2] = NullDatum

\* C20: under a split mode that skips finalization the output is the
\* serialize function of the accumulator when one is configured, null with
\* no call when that function is strict and the accumulator is null, and the
\* accumulator with its null flag when none is configured; no final function
\* is called.
C20_PartialOutputIsSerializedState ==
    (last.op = "finalize" /\ DO_AGGSPLIT_SKIPFINAL(aggsplit))
        => \A aggno \in 1..Len(peraggs) :
             LET call == aggvalues.fcalls[aggno]
                 res == aggvalues.vals[aggno]
             IN  /\ call.fn \in {InvalidOid, pertrans.serialfn_oid}
                 /\ IF pertrans.serialfn_oid = InvalidOid
                       THEN res = Accumulator /\ call.fn = InvalidOid
                     ELSE IF pertrans.serialfn_strict /\ Accumulator.isnull
                       THEN res = NullDatum /\ call.fn = InvalidOid
                     ELSE /\ call.fn = pertrans.serialfn_oid
                          /\ call.fcargs = <<Accumulator>>
                          /\ res = SerialFn(pertrans.serialfn_oid, Accumulator)

C20_Witness ==
    /\ last.op = "finalize"
    /\ DO_AGGSPLIT_SKIPFINAL(aggsplit)
    /\ pertrans = SerialStrict
    /\ ~Accumulator.isnull
    /\ aggvalues.fcalls[1].fn = "send"
    /\ aggvalues.vals[1] = Datum(Accumulator.value + 100)

\* a strict serialize function met a null accumulator
C20_WitnessNullState ==
    /\ last.op = "finalize"
    /\ DO_AGGSPLIT_SKIPFINAL(aggsplit)
    /\ pertrans = SerialStrict
    /\ Accumulator.isnull
    /\ aggvalues.vals[1] = NullDatum

(***************************************************************************)
(* Properties of initialization (checked under SpecInit).                  *)
(***************************************************************************)
\* the malformed aggregates: no combine function under a combining split
\* mode, no serialize or deserialize function for an internal state that is
\* to be serialized or deserialized, an aggregate call inside the aggregate,
\* a strict transition function without initial value over an input that
\* is not of the state's type
Malformed(as, d) ==
    \/ DO_AGGSPLIT_COMBINE(as) /\ d.aggcombinefn = InvalidOid
    \/ /\ d.aggtranstype = INTERNALOID
       /\ \/ DO_AGGSPLIT_SERIALIZE(as) /\ d.aggserialfn = InvalidOid
          \/ DO_AGGSPLIT_DESERIALIZE(as) /\ d.aggdeserialfn = InvalidOid
    \/ d.nested # "none"
    \/ /\ ~DO_AGGSPLIT_COMBINE(as)
       /\ d.transfn_strict /\ d.initValueIsNull /\ d.input = "incompatible"

\* C17: initialization of a node with a malformed aggregate ends in an
\* error and leaves no descriptors; execution never starts on such a node.
C17_MalformedAggregateFailsInit ==
    /\ (initstatus # "start" /\ \E i \in DOMAIN aggdefs : Malformed(aggsplit, aggdefs[i]))
          => /\ initstatus # "ok"
             /\ last.op = "none"
    /\ initstatus \notin {"start", "ok"}
          => pertrans = ZeroPerTrans /\ peraggs = <<>> /\ last.op = "none"

(***************************************************************************)
(* Properties of the scan executor (checked under SpecScan).               *)
(***************************************************************************)
CallReturned == scanpc = "idle" /\ scancount.total > 0

\* C11: a scan with neither predicate nor projection returns exactly what
\* its fetch step produced, rows, dim and skip mask as fetched, evaluates no
\* predicate and makes exactly one fetch per call.
C11_PlainScanIsOneFetch ==
    (~scancfg.qual /\ ~scancfg.projInfo)
        => /\ scancount.quals = 0
           /\ scancount.filtered = 0
           /\ scanpc = "fetch" => scancount.fetches = 0
           /\ CallReturned
                => /\ scancount.fetches = 1
                   /\ scanret = lastfetch.ptr
                   /\ scanret.ref = "scan" => scanret.slot = scanSlot

C11_Witness ==
    /\ ~scancfg.qual /\ ~scancfg.projInfo
    /\ CallReturned
    /\ scancount.am = 1
    /\ scanret.ref = "scan"
    /\ scanret.slot.dim = BATCHSIZE
    /\ scanret.slot.skip[1] /\ ~scanret.slot.skip[BATCHSIZE]

\* the caller is told end-of-scan: a NULL pointer or a slot marked empty
EndOfScan(p) == p.ref = "NULL" \/ p.slot.empty

\* C12 as amended: VExecScan reports end-of-scan only when its fetch step
\* came back null or empty; outside a snapshot re-validation that is the
\* access method's own end of data, so that no call reports end-of-scan
\* while the access method has batches to deliver, and a fetched batch whose
\* rows all fail the predicate is never what ends the scan.
C12_EndOfScanIsEmptyFetch ==
    CallReturned
        => /\ EndOfScan(scanret)
                => /\ EndOfScan(lastfetch.ptr)
                   /\ lastfetch.am = 1 => amleft = 0
                   /\ ~epqstate.active => lastfetch.am = 1
           /\ (~EndOfScan(lastfetch.ptr) /\ ~AnyRowLeft(afterQual))
                => ~EndOfScan(scanret)

C12_Witness ==
    /\ CallReturned
    /\ scancfg.qual
    /\ ~epqstate.active
    /\ scancount.fetches = 3
    /\ scancount.filtered = 2
    /\ EndOfScan(scanret)
    /\ lastfetch.am = 1

\* C12 as written: end-of-scan is reported only when the access method
\* itself returned a null or empty batch.
C12_EndOfScanIsAccessMethodEnd ==
    (CallReturned /\ EndOfScan(scanret))
        => /\ lastfetch.am = 1
           /\ EndOfScan(lastfetch.ptr)

\* C14: during a snapshot re-validation with a replacement row or a
\* non-locking rowmark registered for the scanned relation a fetch does not
\* call the access method; it returns the test row when the recheck method
\* accepts it and an empty result when recheck rejects it or there is no
\* test row; without a re-validation a fetch is one access-method call and
\* no recheck.
C14_RevalidationBypassesAccessMethod ==
    scancount.total > 0
        => /\ (lastfetch.epq.active /\ scancfg.scanrelid # 0
                /\ (lastfetch.epq.relsubs_slot.ref # "NULL" \/ lastfetch.epq.relsubs_rowmark))
                => /\ lastfetch.am = 0
                   /\ lastfetch.recheck = "accepted"
                        => /\ ~EndOfScan(lastfetch.ptr)
                           /\ lastfetch.ptr.slot \in TestSlots
                           /\ lastfetch.epq.relsubs_slot.ref # "NULL"
                                => lastfetch.ptr = lastfetch.epq.relsubs_slot
                   /\ lastfetch.recheck # "accepted" => EndOfScan(lastfetch.ptr)
           /\ (lastfetch.epq.active /\ scancfg.scanrelid = 0)
                => /\ lastfetch.am = 0
                   /\ lastfetch.recheck = "rejected" => EndOfScan(lastfetch.ptr)
           /\ ~lastfetch.epq.active
                => /\ lastfetch.am = 1
                   /\ lastfetch.recheck = "none"
                   /\ lastfetch.ptr.ref = "scan"
                   /\ scancount.am = scancount.fetches

C14_Witness ==
    /\ scancount.total = 1
    /\ scancfg.scanrelid = 1
    /\ lastfetch.epq.active
    /\ lastfetch.recheck = "accepted"
    /\ lastfetch.ptr.ref = "epq"
    /\ lastfetch.ptr.slot.rows[1] = 2
    /\ amleft = MaxScanBatches

\* C18: with a projection configured the batch VExecScan returns carries,
\* at each of the BATCHSIZE positions, the skip flag the fetched batch has
\* after predicate evaluation.
C18_ProjectionKeepsSkipMask ==
    (CallReturned /\ scancfg.projInfo /\ ~EndOfScan(lastfetch.ptr))
        => /\ scanret.ref = "proj"
           /\ scanret.slot = projSlot
           /\ ~EndOfScan(scanret)
           /\ scanret.slot.dim = lastfetch.ptr.slot.dim
           /\ \A i \in 1..BATCHSIZE :
                 /\ scanret.slot.skip[i] = afterQual.skip[i]
                 /\ afterQual.skip[i] =
                       IF scancfg.qual
                         THEN (lastfetch.ptr.slot.skip[i]
                               \/ ~QualPasses(lastfetch.ptr.slot.rows[i]))
                         ELSE lastfetch.ptr.slot.skip[i]

C18_Witness ==
    /\ CallReturned
    /\ scancfg.projInfo /\ scancfg.qual
    /\ lastfetch.ptr.slot.rows = [i \in 1..BATCHSIZE |-> IF i = 1 THEN 2 ELSE 1]
    /\ \A i \in 1..BATCHSIZE : ~lastfetch.ptr.slot.skip[i]
    /\ scanret.ref = "proj"
    /\ scanret.slot.skip = [i \in 1..BATCHSIZE |-> i = 1]

(***************************************************************************)
(* Properties of the aggregation driver (checked under Spec).              *)
(***************************************************************************)
Keys(rows) == {rows[i].a : i \in DOMAIN rows}
Pairs(rows) == {<<rows[i].a, rows[i].b>> : i \in DOMAIN rows}
RECURSIVE SumOver(_, _)
SumOver(rows, k) ==
    IF rows = <<>> THEN 0
    ELSE (IF Head(rows).a = k THEN Head(rows).x ELSE 0) + SumOver(Tail(rows), k)
CountOver(rows, k) == Cardinality({i \in DOMAIN rows : rows[i].a = k})

\* the maximal runs of equal a in a sequence of rows: key, count and sum
RECURSIVE Runs(_, _)
Runs(rows, acc) ==
    IF rows = <<>> THEN acc
    ELSE LET r == Head(rows)
             n == Len(acc)
         IN  IF n > 0 /\ acc[n].a = r.a
               THEN Runs(Tail(rows), [acc EXCEPT ![n].cnt = @ + 1, ![n].sum = @ + r.x])
               ELSE Runs(Tail(rows), Append(acc, OutRow(r.a, r.b, 1, r.x)))

DeliveredOfSet(set) == {i \in DOMAIN delivered : delivered[i].set = set}

\* C1: in HASHED strategy the table holds one entry per distinct key when
\* the fill ends, and by end-of-data the caller has received one row per
\* key carrying the count and sum over exactly the rows of that key.
C1_HashedDeliversEveryGroup ==
    (aggcfg = CfgHashed /\ eod)
        => /\ Present(HashTable(aggstate, 0)) = Keys(input)
           /\ Len(delivered) = Cardinality(Keys(input))
           /\ \A k \in Keys(input) :
                 \E i \in DOMAIN delivered :
                     /\ delivered[i].row.a = k
                     /\ delivered[i].row.cnt = CountOver(input, k)
                     /\ delivered[i].row.sum = SumOver(input, k)

\* C2: in SORTED strategy with one grouping key list the caller receives one
\* row per maximal run of the sorted input, in input order, with the sum
\* over that run.
C2_SortedOneRowPerRun ==
    (aggcfg = CfgSorted /\ eod)
        => LET runs == Runs(input, <<>>)
           IN  /\ Len(delivered) = Len(runs)
               /\ \A i \in DOMAIN delivered :
                     /\ i <= Len(runs)
                     /\ delivered[i].row.a = runs[i].a
                     /\ delivered[i].row.sum = runs[i].sum

\* C3: with grouping sets {(a,b),(a),()} over input sorted by (a,b) the
\* caller receives one row per distinct (a,b), one per distinct a and one
\* for the empty set, the empty set's row last.
C3_RollupRowsPerSet ==
    (aggcfg = CfgRollup /\ eod)
        => /\ Cardinality(DeliveredOfSet(0)) = Cardinality(Pairs(input))
           /\ Cardinality(DeliveredOfSet(1)) = Cardinality(Keys(input))
           /\ Cardinality(DeliveredOfSet(2)) = 1
           /\ delivered[Len(delivered)].set = 2

\* C13: a group the HAVING qual rejects gives the caller no row and no
\* fault: every row delivered satisfies the qual and no call faults, in
\* sorted/plain and in hash retrieval alike.
C13_HavingFalseGroupIsSkipped ==
    aggcfg.qual
        => /\ pc # "crashed"
           /\ \A i \in DOMAIN delivered : delivered[i].row.cnt > 1

\* the counts and sums a group holds after the rows of one batch
CountOf(slot) == Len(ValidRows(slot, 1))
RECURSIVE SumOf(_)
SumOf(rows) == IF rows = <<>> THEN 0 ELSE Head(rows).x + SumOf(Tail(rows))
FirstBatch == rescans > 0 /\ nfetched = outerSlot.dim /\ input = ValidRows(outerSlot, 1)

\* C15: after a rescan that restarts the aggregation no aggregate has a sort
\* open, the phase input sort is closed and an output sort holds nothing,
\* the hash table is empty and marked unfilled, no first-of-group row is
\* stashed, a node that is not HASHED is at phase 1 with input_done false
\* and projected_set -1, and the first group after it holds exactly the
\* rows of the first batch fetched after the rescan.
C15_RescanRestarts ==
    /\ (pc = "idle" /\ lastret = "rescan")
          => /\ \A setno \in DOMAIN aggstate.sortstates : ~aggstate.sortstates[setno]
             /\ ~aggstate.sort_in.open
             /\ aggstate.sort_out.items = <<>>
             /\ use_hashing(aggcfg)
                  => /\ Present(HashTable(aggstate, 0)) = {}
                     /\ ~aggstate.table_filled
             /\ ~aggstate.grp_firstTuple
             /\ aggstate.scanEmpty
             /\ ~aggstate.agg_done
             /\ aggcfg.aggstrategy # "AGG_HASHED"
                  => /\ aggstate.current_phase = 1
                     /\ ~aggstate.input_done
                     /\ aggstate.projected_set = -1
    /\ (FirstBatch /\ pc = "loop_fetch")
          => \A setno \in 1..numGroupingSets(CurrentView) :
                /\ aggstate.pergroups[setno][1].transValue = CountOf(outerSlot)
                /\ CountOf(outerSlot) > 0
                     => aggstate.pergroups[setno][2].transValue = SumOf(input)
    /\ (FirstBatch /\ pc = "fill_fetch")
          => /\ Present(HashTable(aggstate, 0)) = Keys(input)
             /\ \A k \in Keys(input) :
                   HashTable(aggstate, 0)[k].additional[1].transValue = CountOver(input, k)

C15_Witness ==
    /\ aggcfg = CfgTwoSorts
    /\ FirstBatch
    /\ pc = "loop_fetch"
    /\ CountOf(outerSlot) = 2
    /\ aggstate.current_phase = 1
    /\ aggstate.sort_out.open

\* C16: the current phase changes only by a step from p to p + 1 inside the
\* phase list, by the reset to 0 at the end of the sorted phases of a MIXED
\* node, or by the reset to 1 of a rescan; the phase list stays as it was
\* initialized.
C16_PhaseSteps ==
    [][/\ aggcfg' = aggcfg
       /\ aggstate'.current_phase \in 0..(numphases(aggcfg) - 1)
       /\ aggstate'.current_phase # aggstate.current_phase
            => \/ /\ aggstate'.current_phase = aggstate.current_phase + 1
                  /\ rescans' = rescans
               \/ /\ aggstate'.current_phase = 0
                  /\ aggcfg.aggstrategy = "AGG_MIXED"
                  /\ aggstate.current_phase = numphases(aggcfg) - 1
                  /\ rescans' = rescans
               \/ /\ aggstate'.current_phase = 1
                  /\ rescans' = rescans + 1]_vars

C16_Witness ==
    /\ aggcfg = CfgTwoSorts
    /\ aggstate.current_phase = 2
    /\ aggstate.sort_in.open
    /\ pc = "loop_fetch"
    /\ input # <<>>

\* C4: PLAIN strategy over an input without rows hands the caller one batch
\* with exactly one row marked not skipped, whose count is 0, and the call
\* after it returns end-of-data.
C4_PlainEmptyInput ==
    (aggcfg = CfgPlain /\ nfetched = 0 /\ pc = "idle" /\ lastret # "none")
        => /\ Len(delivered) = 1
           /\ delivered[1].row.cnt = 0
           /\ aggstate.agg_done
           /\ lastret = "slot"
                => /\ ~eod
                   /\ placed = 1
                   /\ \A i \in 1..BATCHSIZE : ~resultSlot.skip[i] <=> i = 1
           /\ lastret = "null" => eod

C4_Witness ==
    /\ aggcfg = CfgPlain
    /\ nfetched = 0
    /\ pc = "idle"
    /\ lastret = "null"
    /\ eod
    /\ Len(delivered) = 1
    /\ delivered[1].row.cnt = 0

\* C5: a hash-retrieval call that placed at least one row into the output
\* batch does not report end-of-data.
C5_PlacedRowsAreReturned ==
    (aggcfg = CfgHashed /\ pc = "idle" /\ lastret = "null") => placed = 0

\* C6: every row that a batch returned by the driver marks as not skipped
\* lies at an index below dim.
C6_MarkedRowsBelowDim ==
    (pc = "idle" /\ lastret = "slot")
        => \A i \in 1..BATCHSIZE : ~resultSlot.skip[i] => i <= resultSlot.dim

(***************************************************************************)
(* Properties of the group loop and the phases of the driver.              *)
(***************************************************************************)
\* C21: in SORTED mode a fetched batch whose row differs on the grouping
\* column from the batch advanced before it is not advanced into the group
\* being closed: the group's states stay as they were and the batch is kept
\* as the first tuple of the next group.
C21_BoundaryRowStartsNextGroup ==
    [][(/\ aggcfg = CfgSorted
        /\ pc = "loop_fetch"
        /\ ~TupIsNull(outerSlot')
        /\ ~outerSlot.skip[1] /\ ~outerSlot'.skip[1]
        /\ outerSlot'.rows[1].a # outerSlot.rows[1].a)
          => /\ aggstate'.pergroups = aggstate.pergroups
             /\ aggstate'.grp_firstTuple]_vars

\* the valid rows of a sequence of stored batches, and two sequences holding
\* the same rows the same number of times
RECURSIVE RowsOf(_)
RowsOf(items) ==
    IF items = <<>> THEN <<>> ELSE ValidRows(Head(items), 1) \o RowsOf(Tail(items))
SameRows(s, t) ==
    \A r \in {s[i] : i \in DOMAIN s} \cup {t[i] : i \in DOMAIN t} :
        Cardinality({i \in DOMAIN s : s[i] = r}) = Cardinality({i \in DOMAIN t : t[i] = r})

\* phase p has a successor that is fed through a sort
HasNextSortPhase(c, p) == p >= 1 /\ p < numphases(c) - 1

RECURSIVE EntriesBefore(_, _)
EntriesBefore(st, setno) ==
    IF setno = 0 THEN 0
    ELSE EntriesBefore(st, setno - 1) + Cardinality(Present(HashTable(st, setno - 1)))
EntriesTaken(st) ==
    EntriesBefore(st, st.current_set + 1) - Len(st.hashiter)

\* the input of the current sort phase is exhausted and all its grouping sets
\* are projected, and the node is asked for its next batch
PhaseExhausted ==
    /\ pc = "idle"
    /\ pc' # "ended"
    /\ rescans' = rescans
    /\ aggstate.current_phase >= 1
    /\ ~aggstate.agg_done
    /\ aggstate.input_done
    /\ aggstate.projected_set >= numGroupingSets(CurrentView) - 1

\* C23: at the end of a sort phase the driver advances to the next sort phase
\* with input_done = false and projected_set = -1 if there is one, and the
\* group loop of that phase then stands before its first fetch, having set
\* projected_set to 0; else a
\* MIXED driver goes to phase 0, marks the table filled and runs the hash
\* retrieval from the first entry of hash set 0, which takes entries up to a
\* batch from the tables; else agg_done is set.  agg_done is only ever
\* set in the last sort phase with its input sort drained, or, for a hashing
\* node, in phase 0 with the table filled and its iterator exhausted.
C23_PhaseAdvance ==
    [][/\ PhaseExhausted =>
            IF aggstate.current_phase < numphases(aggcfg) - 1
              THEN /\ AdvancePhase(aggcfg, aggstate).current_phase = aggstate.current_phase + 1
                   /\ ~AdvancePhase(aggcfg, aggstate).input_done
                   /\ AdvancePhase(aggcfg, aggstate).projected_set = -1
                   /\ aggstate'.current_phase = aggstate.current_phase + 1
                   /\ ~aggstate'.input_done
                   /\ aggstate'.projected_set = 0
                   /\ ~aggstate'.agg_done
                   /\ pc' = "first_fetch"
            ELSE IF aggcfg.aggstrategy = "AGG_MIXED"
              THEN /\ aggstate'.current_phase = 0
                   /\ aggstate'.table_filled
                   /\ aggstate'.perhash = aggstate.perhash
                   /\ LET total == EntriesBefore(aggstate, num_hashes(aggcfg))
                      IN  EntriesTaken(aggstate') =
                             IF total < BATCHSIZE THEN total ELSE BATCHSIZE
                   /\ pc' = "idle"
            ELSE aggstate'.agg_done /\ pc' = "idle"
       /\ aggstate'.agg_done =>
            IF use_hashing(aggcfg)
              THEN /\ aggstate'.current_phase = 0
                   /\ aggstate'.table_filled
                   /\ aggstate'.hashiter = <<>>
              ELSE /\ aggstate'.current_phase = numphases(aggcfg) - 1
                   /\ aggstate'.sort_in.items = <<>>]_vars
\* a driver with three sort phases has gone through all of them over two
\* input rows and is done
C23_WitnessAdvance ==
    /\ aggcfg = CfgThreeSorts
    /\ aggstate.current_phase = 3
    /\ aggstate.agg_done
    /\ Len(input) = 2

\* the rows of a sequence whose column col is k
RowsWith(rows, col, k) == SelectSeq(rows, LAMBDA r : r[col] = k)

\* every hash table holds an entry for exactly the keys of the rows read so
\* far, each carrying the count and the sum over the rows of its key
TablesHoldInput ==
    \A setno \in 0..(num_hashes(aggcfg) - 1), k \in AVals :
        LET col == HashKey(aggcfg, setno)
            entry == HashTable(aggstate, setno)[k]
            rows == RowsWith(input, col, k)
        IN  /\ entry.present <=> rows # <<>>
            /\ entry.present => /\ entry.additional[1].transValue = Len(rows)
                                /\ entry.additional[2].transValue = SumOf(rows)

\* C24: in MIXED strategy every batch read in phase 1 is, in the step that
\* fetches it, looked up in every hash set and then advanced there, so that
\* the tables of all sets hold the rows read so far; no other step of the
\* driver than a fetch of a non-empty batch in phase 1 changes a hash table.
C24_MixedHashesFilledInPhaseOne ==
    [][aggcfg.aggstrategy = "AGG_MIXED"
          => /\ TablesHoldInput'
             /\ (aggstate'.perhash # aggstate.perhash /\ rescans' = rescans)
                   => /\ aggstate.current_phase = 1
                      /\ pc \in {"first_fetch", "loop_fetch"}
                      /\ ~TupIsNull(outerSlot')]_vars
\* a later sort phase is reading its input while both hash tables hold the
\* two rows read in phase 1, which differ in both hashed columns
C24_Witness ==
    /\ aggcfg = CfgMixedTwoHashes
    /\ aggstate.current_phase = 2
    /\ pc = "loop_fetch"
    /\ Cardinality(Present(HashTable(aggstate, 0))) = 2
    /\ Cardinality(Present(HashTable(aggstate, 1))) = 2

\* the rows of a sorted input that belong to the group of its last row in
\* the grouping set of the first n grouping columns
GroupOfLast(c, rows, n) ==
    SelectSeq(rows, LAMBDA r : eqfunctions(c, n, r, rows[Len(rows)]))

\* C25: over input sorted by (a, b) with grouping sets {(a,b),(a),()} the
\* states of the sets whose grouping values changed at a group boundary are
\* reinitialized before the next row is advanced and the more general sets
\* keep what they accumulated: after a batch has been advanced, the state of
\* every set counts and sums exactly the rows read so far that belong to the
\* group of the last row in that set.
C25_BoundaryResetsChangedSets ==
    (aggcfg = CfgRollup /\ pc = "loop_fetch" /\ input # <<>>)
        => \A setno \in 1..numGroupingSets(aggcfg) :
              LET rows == GroupOfLast(aggcfg, input, aggcfg.gset_lengths[setno])
              IN  /\ aggstate.pergroups[setno][1].transValue = Len(rows)
                  /\ aggstate.pergroups[setno][2].transValue = SumOf(rows)

\* C26: for an aggregate with DISTINCT or ORDER BY every grouping set has a
\* tuplesort exactly from the initialization of its group to the group's
\* finalization or a rescan: the handle is set exactly if one more sort was
\* begun than ended, no sort is ended twice or lost while open, no step puts
\* into or reads a sort whose handle is cleared, and after VExecEndAgg every
\* sort begun has been ended once.
C26_AggregateSortLifetime ==
    aggcfg.hasSortAgg
        => /\ ~aggstate.nullsort
           /\ \A setno \in DOMAIN aggstate.sortstates :
                 /\ aggstate.nended[setno] <= aggstate.nbegun[setno]
                 /\ pc # "ended"
                      => aggstate.nbegun[setno] - aggstate.nended[setno]
                            = (IF aggstate.sortstates[setno] THEN 1 ELSE 0)
                 /\ pc = "ended" => aggstate.nended[setno] = aggstate.nbegun[setno]
           /\ (pc = "loop_fetch" /\ ~TupIsNull(outerSlot))
                 => \A setno \in 1..numGroupingSets(CurrentView) : aggstate.sortstates[setno]
\* the node is shut down after a rescan: set (a) had a sort for the group
\* before the rescan and a fresh one for the group after it, the second one
\* still open when VExecEndAgg ended it
C26_Witness ==
    /\ aggcfg = CfgSortAgg
    /\ pc = "ended"
    /\ aggstate.sortstates[1]
    /\ aggstate.nbegun[1] = 2
    /\ aggstate.nended[1] = 2
    /\ aggstate.nbegun[2] = 2

\* C27: once the hash retrieval of a HASHED node has set agg_done, the caller
\* has received every entry of every hash table exactly once, the entries of
\* a table with a lower grouping-set index before those of a higher one, and
\* the iterator of the last table is exhausted.
C27_HashRetrievalEmitsEachEntryOnce ==
    (aggcfg.aggstrategy = "AGG_HASHED" /\ ~aggcfg.qual /\ aggstate.agg_done)
        => /\ \A setno \in 0..(num_hashes(aggcfg) - 1) :
                 \A k \in Present(HashTable(aggstate, setno)) :
                    Cardinality({i \in DOMAIN delivered :
                                    /\ delivered[i].set = setno
                                    /\ delivered[i].row[HashKey(aggcfg, setno)] = k}) = 1
           /\ \A i, j \in DOMAIN delivered : i < j => delivered[i].set <= delivered[j].set
           /\ aggstate.current_set = num_hashes(aggcfg) - 1
           /\ aggstate.hashiter = <<>>

\* ExecReScanAgg of a HASHED node: what it does to the node
RescanKeepsFilledTable ==
    (aggcfg.aggstrategy = "AGG_HASHED" /\ rescans' = rescans + 1)
        => /\ (aggstate.table_filled /\ lastret' = "rescan_kept")
                 => /\ aggstate'.perhash = aggstate.perhash
                    /\ aggstate'.table_filled
                    /\ input' = input /\ nfetched' = nfetched
                    /\ aggstate'.current_set = 0
                    /\ aggstate'.hashiter \in SeqsOf(Present(HashTable(aggstate, 0)))
                    /\ ~aggstate'.agg_done
           /\ ~aggstate.table_filled
                 => aggstate' = [aggstate EXCEPT !.agg_done = FALSE]

\* the call that follows a rescan which kept the table hands the caller the
\* groups of the table again, up to a batch of them
CallAfterRescanEmits ==
    (/\ aggcfg.aggstrategy = "AGG_HASHED" /\ ~aggcfg.qual
     /\ pc = "idle" /\ lastret = "rescan_kept"
     /\ pc' = "idle" /\ rescans' = rescans)
        => LET total == EntriesBefore(aggstate, num_hashes(aggcfg))
           IN  total > 0
                 => /\ lastret' = "slot"
                    /\ Len(delivered') = IF total < BATCHSIZE THEN total ELSE BATCHSIZE

\* C28: a rescan of a HASHED node with a filled table and no changed
\* parameter keeps every hash table, leaves the input unread and resets the
\* iterator to the first entry of hash set 0, and the calls that follow emit
\* the groups again; a rescan before the table is filled only clears
\* agg_done.
C28_RescanOfFilledTable ==
    [][RescanKeepsFilledTable /\ CallAfterRescanEmits]_vars

\* what lookup_hash_entry returns for a table and a batch, as C29 has it
LookupAsSpecified(hashtable, col, slot) ==
    LET r == lookup_hash_entry(hashtable, col, slot)
        probed == {i \in 1..BATCHSIZE : ~slot.skip[i]}
        keys == {slot.rows[i][col] : i \in probed}
    IN  /\ r.nprobes = Cardinality(probed)
        /\ \A i \in 1..BATCHSIZE :
              IF slot.skip[i] THEN r.pergroupVector[i] = NullEntry
              ELSE /\ r.pergroupVector[i] = slot.rows[i][col]
                   /\ r.hashtable[slot.rows[i][col]].present
        /\ \A k \in AVals :
              IF hashtable[k].present \/ k \notin keys
                THEN r.hashtable[k] = hashtable[k]
                ELSE /\ r.hashtable[k].present
                     /\ Len(r.hashtable[k].additional) = Len(DriverTrans)
                     /\ \A transno \in 1..Len(DriverTrans) :
                           r.hashtable[k].additional[transno]
                              = initialize_aggregate(DriverTrans[transno])

\* C29: when agg_fill_hash_table has fetched a batch, lookup_hash_entry
\* probes the table once for every row whose skip flag is false and for no
\* other; an unseen key gets one entry with a freshly initialized state per
\* pertrans, the entry of a known key and every other entry stay as they
\* are and none is removed, and the array returned holds at index i the
\* entry of row i, NULL for a skipped row; the rows are then advanced into
\* the entries the array names.
C29_LookupPerRow ==
    [][(aggcfg = CfgHashed /\ pc = "fill_fetch" /\ ~TupIsNull(outerSlot'))
          => LET table == HashTable(aggstate, 0)
                 col == HashKey(aggcfg, 0)
                 r == lookup_hash_entry(table, col, outerSlot')
             IN  /\ LookupAsSpecified(table, col, outerSlot')
                 /\ HashTable(aggstate', 0)
                       = AdvanceHashed(r.hashtable, r.pergroupVector, outerSlot', 1)
                 /\ Present(HashTable(aggstate', 0))
                       = Present(table) \cup {outerSlot'.rows[i][col] :
                                                i \in {j \in 1..BATCHSIZE : ~outerSlot'.skip[j]}}]_vars
\* a batch with a skipped row and a row of a known key has been looked up
\* after a batch that brought a second key: key 1 has two rows, key 2 one
C29_Witness ==
    /\ aggcfg = CfgHashed
    /\ pc = "fill_fetch"
    /\ outerSlot.dim = 2 /\ outerSlot.skip[1] /\ ~outerSlot.skip[2]
    /\ outerSlot.rows[2].a = 1
    /\ HashTable(aggstate, 0)[1].additional[1].transValue = 2
    /\ HashTable(aggstate, 0)[2].additional[1].transValue = 1

\* replaying the inputs of the group from its initialized state: has a call
\* of the transition function returned null
RECURSIVE CallReturnedNull(_, _, _, _)
CallReturnedNull(pt, pg, inputs, i) ==
    IF i > Len(inputs) THEN FALSE
    ELSE LET r == advance_transition_function(pt, pg, inputs[i])
         IN  \/ r.called /\ r.pergroup.transValueIsNull
             \/ CallReturnedNull(pt, r.pergroup, inputs, i + 1)
NullReturnedInGroup ==
    /\ pertrans.fn_strict
    /\ pertrans.numSortCols = 0
    /\ last.op # "none"
    /\ CallReturnedNull(pertrans, initialize_aggregate(pertrans), log, 1)

\* C30: once a call of a strict transition function has returned null for
\* the group, the accumulator is null and not "uninitialized", and every
\* later input of the group leaves it as it is: the function is not
\* invoked and the input is not adopted; only the next group's
\* initialize_aggregate replaces the null.
C30_NullFromStrictTransfnIsKept ==
    [][NullReturnedInGroup
          => /\ pergroupstate.transValueIsNull
             /\ ~pergroupstate.noTransValue
             /\ last'.op = "advance"
                  => /\ pergroupstate' = pergroupstate
                     /\ ncalls' = ncalls
                     /\ NullReturnedInGroup'
             /\ last'.op # "init"
                  => /\ pergroupstate'.transValueIsNull
                     /\ ~pergroupstate'.noTransValue]_vars
\* the group adopted 1, the call for a second 1 returned null, and the
\* input 2 that followed was neither passed to the function nor adopted
C30_Witness ==
    /\ pertrans = NullOnTie
    /\ last.op = "advance"
    /\ log = <<<<Datum(1)>>, <<Datum(1)>>, <<Datum(2)>>>>
    /\ last.pre.transValueIsNull /\ ~last.pre.noTransValue
    /\ pergroupstate = last.pre
    /\ ncalls = 1

\* the null flag finalize_aggregates computed for the sum of the group the
\* last call projected (ecxt_aggnulls)
ProjectedSumIsNull ==
    finalize_aggregate(NoFinal, aggstate.pergroups[aggstate.current_set + 1][2]).result.isnull

\* C31: a row that agg_retrieve_direct has placed in the result batch marks
\* its sum column null exactly when the aggregate's result for the group is
\* null, whatever the flag held before: a null sum (no non-null input) is
\* told apart from a sum of zero.
C31_NullResultIsMarkedNull ==
    (aggcfg.aggstrategy \in {"AGG_PLAIN", "AGG_SORTED"}
     /\ pc = "idle" /\ lastret = "slot" /\ placed = 1)
        => (resultSlot.isnull[1] <=> ProjectedSumIsNull)
\* the part of C31 that is reached: a PLAIN aggregate over no input rows
\* returns a row whose sum is null
C31_NullResultReached ==
    /\ aggcfg = CfgPlain
    /\ pc = "idle" /\ lastret = "slot" /\ placed = 1
    /\ input = <<>>
    /\ ProjectedSumIsNull
    /\ ~resultSlot.isnull[1]
    /\ resultSlot.rows[1].sum = 0

(***************************************************************************)
(* Properties of the sharing of per-agg and per-trans slots (SpecInit).    *)
(***************************************************************************)
\* the per-agg slot of the Aggref at position i and its per-trans slot
PerAggAt(i) == sharing.aggno[i] + 1
TransAt(i) == sharing.transno[PerAggAt(i)]
\* the first Aggref that points to per-agg slot p
RefOf(p) == aggdefs[FirstOf({i \in DOMAIN sharing.aggno : PerAggAt(i) = p})]
\* the final function of d leaves the state shareable, or is not run here
PermitsSharing(d) ==
    d.aggfinalmodify # AGGMODIFY_READ_WRITE \/ DO_AGGSPLIT_SKIPFINAL(aggsplit)
\* transition function, serialize/deserialize functions and initial value
SameTransition(d, e) ==
    /\ SelectFns(aggsplit, d).transfn_oid = SelectFns(aggsplit, e).transfn_oid
    /\ SelectFns(aggsplit, d).serialfn_oid = SelectFns(aggsplit, e).serialfn_oid
    /\ SelectFns(aggsplit, d).deserialfn_oid = SelectFns(aggsplit, e).deserialfn_oid
    /\ d.initValueIsNull = e.initValueIsNull
    /\ initValue(d) = initValue(e)
\* the conditions of C32 that do not depend on the order of the two calls
Compatible(d, e) ==
    /\ SameInputs(d, e)
    /\ PermitsSharing(d) /\ PermitsSharing(e)
    /\ SameTransition(d, e)
\* the earlier per-agg slots whose state the call of slot q could take
Candidates(q) ==
    {p \in 1..(q - 1) : Compatible(RefOf(p), RefOf(q))}
Initialized == initstatus = "ok" /\ sharing # NoSharing
SlotsInRange ==
    /\ DOMAIN sharing.aggno = DOMAIN aggdefs
    /\ \A i \in DOMAIN aggdefs : PerAggAt(i) \in 1..sharing.numaggs
    /\ \A p \in 1..sharing.numaggs :
          sharing.transno[p] >= 0 /\ sharing.transno[p] < sharing.numtrans
    /\ sharing.numtrans <= sharing.numaggs
    /\ sharing.numaggs <= Len(aggdefs)

\* C32 as amended: after initialization an Aggref points to the per-agg slot
\* of an earlier identical Aggref exactly when it contains no volatile
\* function; two per-agg slots have one per-trans state only when their
\* inputs and modifiers are equal, the later call contains no volatile
\* function, both final functions permit sharing and transition function,
\* serialize/deserialize functions and initial value are equal; a call for
\* which that holds with some earlier slot takes the state of the first
\* such slot, every other call gets a state of its own; every transno is
\* below numtrans <= numaggs, and no later step changes the assignment.
C32_SharingLaw ==
    [][/\ Initialized
          => /\ SlotsInRange
             /\ \A i, j \in DOMAIN aggdefs :
                   i < j => ((PerAggAt(i) = PerAggAt(j))
                               <=> /\ aggdefs[i] = aggdefs[j]
                                   /\ ~contain_volatile_functions(aggdefs[j]))
             /\ \A q \in 1..sharing.numaggs :
                   IF ~contain_volatile_functions(RefOf(q)) /\ Candidates(q) # {}
                     THEN sharing.transno[q] = sharing.transno[FirstOf(Candidates(q))]
                     ELSE \A p \in 1..(q - 1) : sharing.transno[p] # sharing.transno[q]
             /\ \A p, q \in 1..sharing.numaggs :
                   (p < q /\ sharing.transno[p] = sharing.transno[q])
                      => /\ Compatible(RefOf(p), RefOf(q))
                         /\ ~contain_volatile_functions(RefOf(q))
             /\ sharing' = sharing
       /\ Initialized' => SlotsInRange']_vars
\* three aggregates over one input: the second has a volatile direct
\* argument and a state of its own, the third shares the state of the first
C32_Witness ==
    /\ Initialized
    /\ Len(aggdefs) = 3
    /\ last.op = "advance"
    /\ contain_volatile_functions(aggdefs[2])
    /\ Compatible(aggdefs[2], aggdefs[3])
    /\ sharing.transno = <<0, 1, 0>>
    /\ sharing.aggno = <<0, 1, 2>>
\* a later aggregate shares the state of an earlier one whose direct
\* argument is volatile
C32_WitnessVolatileShared ==
    /\ Initialized
    /\ Len(aggdefs) = 2
    /\ contain_volatile_functions(aggdefs[1])
    /\ ~contain_volatile_functions(aggdefs[2])
    /\ sharing.transno = <<0, 0>>
    /\ sharing.aggno = <<0, 1>>

\* C32 as written: two different calls have one per-trans state exactly
\* when inputs and modifiers are equal, neither contains a volatile
\* function, both final functions permit sharing and the transition
\* properties are equal; identical calls have one per-agg slot.
C32_SharedExactlyWhenCompatible ==
    Initialized
       => /\ SlotsInRange
          /\ \A i, j \in DOMAIN aggdefs :
                i < j =>
                  IF aggdefs[i] = aggdefs[j] /\ ~contain_volatile_functions(aggdefs[j])
                    THEN PerAggAt(i) = PerAggAt(j)
                    ELSE (TransAt(i) = TransAt(j))
                            <=> /\ Compatible(aggdefs[i], aggdefs[j])
                                /\ ~contain_volatile_functions(aggdefs[i])
                                /\ ~contain_volatile_functions(aggdefs[j])

(***************************************************************************)
(* Properties of the vector slot (checked under SpecSlot).                 *)
(***************************************************************************)
\* the state tts_vector_init leaves, apart from the tuples and the values
Cleared(slot) ==
    /\ slot.empty
    /\ slot.dim = 0
    /\ slot.coldim = 0
    /\ \A i \in 1..BATCHSIZE : slot.skip[i]
    /\ slot.bufnum = 0

\* C33: whatever stores, output fills and clears a vector slot has seen,
\* when a clear returns (on its own or at the start of a hash output fill)
\* the slot is flagged empty with dim = 0, every column dim = 0, all
\* BATCHSIZE skip flags true, bufnum = 0 and no buffer left in the entries
\* that were recorded; a clear of a slot already flagged empty finds it so.
C33_ClearResetsBatch ==
    [][slotlast'.op \in {"clear", "hash_fill"}
          => /\ Cleared(vslot')
             /\ \A i \in 1..vslot.bufnum : vslot'.tts_buffers[i] = InvalidBuffer
             /\ vslot.empty => vslot' = vslot]_vars
\* a clear of a slot that holds a deformed full batch with two buffers
C33_Witness ==
    /\ slotlast.op = "clear"
    /\ ~slotlast.empty
    /\ slotlast.dim = BATCHSIZE
    /\ slotlast.bufnum = 2
    /\ Cleared(vslot)
\* a clear of a slot already flagged empty, after an output fill
C33_WitnessEmpty ==
    /\ slotlast.op = "clear"
    /\ slotlast.empty
    /\ Cleared(vslot)

\* C34: dim never exceeds BATCHSIZE and no store writes a tuple or a buffer
\* behind the arrays of BATCHSIZE elements; a store writes at index dim and
\* raises dim by one.
C34_DimWithinBatch ==
    /\ vslot.dim <= BATCHSIZE
    /\ ~overrun
    /\ slotlast.op = "store"
          => /\ vslot.dim = slotlast.dim + 1
             /\ vslot.tts_tuples[slotlast.dim + 1] # 0
\* the part of C34 that holds: a store writes at index dim and raises dim
\* by one
C34_StoreAppends ==
    slotlast.op = "store"
       => /\ vslot.dim = slotlast.dim + 1
          /\ vslot.tts_tuples[slotlast.dim + 1] # 0

\* pins the slot should hold: one for each valid entry of
\* tts_buffers[0 .. bufnum - 1]
RecordedPins(slot, b) ==
    Cardinality({i \in 1..slot.bufnum : slot.tts_buffers[i] = b})

\* C39: the slot holds exactly one pin for each valid buffer recorded in
\* tts_buffers[0 .. bufnum - 1], bufnum <= dim, a store of the buffer
\* recorded last takes no pin, and a clear releases every recorded buffer
\* once and leaves bufnum = 0 and no pin.
C39_PinsMatchRecordedBuffers ==
    slotlast.op # "error"
       => /\ \A b \in Buffers : pins[b] = RecordedPins(vslot, b)
          /\ vslot.bufnum <= vslot.dim
          /\ slotlast.op \in {"clear", "hash_fill"}
                => vslot.bufnum = 0 /\ pins = NoPins
\* the part of C39 that is reached while no store has overrun the arrays
C39_PinsMatchWithinBatch ==
    (slotlast.op # "error" /\ ~overrun)
       => /\ \A b \in Buffers : pins[b] = RecordedPins(vslot, b)
          /\ vslot.bufnum <= vslot.dim
          /\ slotlast.op \in {"clear", "hash_fill"}
                => vslot.bufnum = 0 /\ pins = NoPins

(***************************************************************************)
(* Empty input of a sorted node (checked under SpecSorted).                *)
(***************************************************************************)
\* the sorted phases of a node, first to last
SortedPhases(c) == 1..(numphases(c) - 1)

\* the grouping sets of length 0 of the phases from p on, phase by phase,
\* each as its index in its phase's gset_lengths
RECURSIVE EmptySetsFrom(_, _)
EmptySetsFrom(c, p) ==
    IF p > numphases(c) - 1 THEN <<>>
    ELSE LET lens == PhaseView(c, p).gset_lengths
             RECURSIVE Sets(_)
             Sets(i) == IF i > Len(lens) THEN <<>>
                        ELSE (IF lens[i] = 0 THEN <<i - 1>> ELSE <<>>) \o Sets(i + 1)
         IN  Sets(1) \o EmptySetsFrom(c, p + 1)

\* the child returned end-of-data at its first fetch and the caller has
\* been told end-of-data
EmptyInputDone ==
    /\ aggcfg.aggstrategy = "AGG_SORTED"
    /\ nfetched = 0
    /\ pc = "idle"
    /\ eod

\* C35: a SORTED node whose child delivers nothing: without grouping sets
\* the first call sets agg_done and returns end-of-data and the caller gets
\* no row; with grouping sets the caller gets, phase by phase, one row for
\* each grouping set of length 0 and none for a set with grouping columns.
C35_EmptyInputRows ==
    EmptyInputDone
       => /\ aggstate.agg_done
          /\ Len(delivered) = Len(EmptySetsFrom(aggcfg, 1))
          /\ \A i \in DOMAIN delivered : delivered[i].set = EmptySetsFrom(aggcfg, 1)[i]
          /\ (numsets(aggcfg) = 0 /\ aggcfg.chain = <<>>) => delivered = <<>>
\* two phases with an empty grouping set each: two rows
C35_Witness ==
    /\ EmptyInputDone
    /\ aggcfg = CfgTwoRollups
    /\ Len(delivered) = 2
\* no grouping sets: end-of-data at the first call
C35_WitnessNoSets ==
    /\ EmptyInputDone
    /\ aggcfg = CfgGroupSortAgg
    /\ delivered = <<>>
    /\ aggstate.agg_done

(***************************************************************************)
(* The test row of a re-validation (checked under SpecScan).               *)
(***************************************************************************)
\* this step is an ExecScanFetch
FetchStep == scancount'.total = scancount.total + 1

\* C36: in a re-validation of a scan with scanrelid > 0 a fetch that finds
\* a test slot or a rowmark for the relation marks the relation done; a
\* fetch that finds it marked done returns the cleared scan slot, calls
\* neither the access method nor the recheck method and leaves it marked,
\* so the test row is handed out by the first fetch or not at all.
C36_TestRowAtMostOnce ==
    [][(FetchStep /\ scancfg.scanrelid > 0 /\ epqstate.active)
          => /\ (HasTestSlot(epqstate) \/ epqstate.relsubs_rowmark)
                   => epqstate'.relsubs_done
             /\ epqstate.relsubs_done
                   => /\ lastfetch'.am = 0
                      /\ lastfetch'.recheck = "none"
                      /\ lastfetch'.ptr.ref = "scan"
                      /\ TupIsNull(lastfetch'.ptr.slot)
                      /\ scanret'.ref # "epq"
                      /\ TupIsNull(scanret'.slot)
                      /\ amleft' = amleft
                      /\ epqstate' = epqstate]_vars
\* the second fetch of a re-validation whose first fetch returned the test
\* row: the access method still has batches, and none is asked for
C36_Witness ==
    /\ scancfg.scanrelid = 1
    /\ scancount.total = 2
    /\ epqstate.active
    /\ epqstate.relsubs_done
    /\ epqstate.relsubs_slot.slot \in TestSlots
    /\ lastfetch.am = 0
    /\ lastfetch.recheck = "none"
    /\ TupIsNull(lastfetch.ptr.slot)
    /\ amleft > 0

(***************************************************************************)
(* Calls after the end of the aggregation (checked under SpecNode).        *)
(***************************************************************************)
\* this step is a call of VExecAgg by the caller
CallStep == pc = "idle" /\ rescans' = rescans /\ pc' # "ended"

\* C38: a call of VExecAgg that finds agg_done set returns end-of-data at
\* once: it fetches nothing from the child, leaves the node's state with
\* its transition values and hash tables, the result slot and the rows
\* delivered as they are and places no row; agg_done stays set until
\* ExecReScanAgg, which clears it.
C38_DoneNodeStaysDone ==
    [][/\ (CallStep /\ aggstate.agg_done)
          => /\ pc' = "idle"
             /\ lastret' = "null"
             /\ eod'
             /\ placed' = 0
             /\ aggstate' = aggstate
             /\ resultSlot' = resultSlot
             /\ delivered' = delivered
             /\ <<outerSlot', input', nfetched'>> = <<outerSlot, input, nfetched>>
       /\ (aggstate.agg_done /\ rescans' = rescans) => aggstate'.agg_done
       /\ rescans' # rescans => ~aggstate'.agg_done]_vars
\* end-of-data from a node that is done and has delivered a row, with input
\* the child could still add to
C38_Witness ==
    /\ aggstate.agg_done
    /\ pc = "idle"
    /\ lastret = "null"
    /\ delivered # <<>>
    /\ nfetched < MaxNodeRows
    /\ rescans = 0

(***************************************************************************)
(* The two flags of a group's transition value (checked under SpecTrans).  *)
(***************************************************************************)
\* C40: with a strict transition function noTransValue implies
\* transValueIsNull in every state a step leaves; initialize_aggregate sets
\* both flags to initValueIsNull; the first input without a null clears
\* both at once, an input with a null leaves the group as it is; and
\* noTransValue, once false, stays false until the next
\* initialize_aggregate.
C40_NoTransValueLaw ==
    [][pertrans.fn_strict
          => /\ pergroupstate'.noTransValue => pergroupstate'.transValueIsNull
             /\ last'.op = "init"
                   => /\ pergroupstate'.noTransValue = pertrans.initValueIsNull
                      /\ pergroupstate'.transValueIsNull = pertrans.initValueIsNull
             /\ (last'.op = "advance" /\ pergroupstate.noTransValue)
                   => IF AnyNullInput(pertrans, last'.args)
                        THEN pergroupstate' = pergroupstate
                        ELSE /\ ~pergroupstate'.noTransValue
                             /\ ~pergroupstate'.transValueIsNull
             /\ (last'.op # "init" /\ ~pergroupstate.noTransValue)
                   => ~pergroupstate'.noTransValue]_vars
\* a strict aggregate without initial value after a null input and then
\* its first input that is not null
C40_Witness ==
    /\ pertrans.fn_strict
    /\ pertrans.initValueIsNull
    /\ Len(log) = 2
    /\ log[1][1].isnull
    /\ last.op = "advance"
    /\ last.pre.noTransValue
    /\ last.pre.transValueIsNull
    /\ ~pergroupstate.noTransValue
    /\ ~pergroupstate.transValueIsNull

(***************************************************************************)
(* Termination of the aggregation (checked under SpecLive).                *)
(***************************************************************************)
\* the node is done and the caller has end-of-data from it
DoneAndEndOfData == aggstate.agg_done /\ pc = "idle" /\ lastret = "null"

\* C37: under repeated calls, over a child that delivers finitely many
\* batches and then end-of-data, every node ends up with agg_done set and
\* end-of-data returned, whatever its strategy, and every call returns.
C37_EventuallyDone == <>DoneAndEndOfData
\* a call segment is due or has just ended, and the node is neither done
\* with end-of-data returned nor has a call faulted: a step is possible
C37_StepPossibleUnlessFault ==
    (~DoneAndEndOfData /\ pc # "crashed") => ENABLED LiveNext

=============================================================================
